---- MODULE Spec2Model ----
(***************************************************************************)
(* State-machine model of MCPClientManager (src/src/core/MCPClientManager.ts), *)
(* of its owner CodeBuddyMCPServer (src/unnamed/part_000), of the Paywall  *)
(* (src/src/core/Paywall.ts) and of the WorkflowEngine                     *)
(* (src/src/core/WorkflowEngine.ts).                                       *)
(*                                                                         *)
(* JavaScript runs every handler to its next `await` without interleaving, *)
(* so one action is the code between two suspension points.  Time is       *)
(* Date.now() in milliseconds.                                             *)
(***************************************************************************)
EXTENDS Integers, Sequences, FiniteSets, TLC

VARIABLES
  config,       \* this.config, as the ordered entries Object.entries() yields
  endpoint,     \* environment: how each server's endpoint answers a connect
  clients,      \* this.clients: the Map, as its ordered entries <<name, session id>>
  sessions,     \* the MCPClient objects ever created, indexed by identity
  init,         \* position of the (single) initializeClients() invocation
  calls,        \* position and locals of each caller's callTool() invocation
  now,          \* Date.now()
  teardown,     \* position of the disconnectAll() invocation in progress, if any
  failedSince,  \* history: per session, failed attempts recorded since its last reset
  history,      \* history: the callTool invocations completed so far (where scope keeps it)
  scope,        \* the exploration's scope: who calls what, and how often
  reconnect,    \* position and locals of the reconnectServer() invocation in progress, if any
  reload,       \* position of the owner's reload_mcp_servers handler
  retired,      \* the managers the owner has replaced: their config, Map and initializeClients()
  reply,        \* what the last synchronous operation returned to its caller
  abandoned,    \* the transports connect() established for an initializeClient that then threw
  counterFile,  \* the file ~/.codebuddy/counter.json of the Paywall
  paywalled,    \* the invocations of the paywalled tools, in order, with their outcome
  freeCalls,    \* this.freeCalls of the Paywall
  incrementedSince, \* history: per device, incrementCalls since its last resetCalls
  workflowSteps,    \* WorkflowEngine: the status of each entry of this.workflowSteps
  currentStep,      \* WorkflowEngine: this.currentStep (0-based)
  projectStatus,    \* WorkflowEngine: this.projectStatus
  engine            \* the invocations of executeNextStep / startAutoWorkflow in progress

vars == <<config, endpoint, clients, sessions, init, calls, now, teardown, failedSince, history, scope,
          reconnect, reload, retired, reply, abandoned, counterFile, paywalled, freeCalls, incrementedSince,
          workflowSteps, currentStep, projectStatus, engine>>

\* The variables of the Paywall and of the paywalled tools.
vars_paywall == <<counterFile, paywalled, freeCalls, incrementedSince>>

\* The variables of the WorkflowEngine and of its callers.
vars_workflow == <<workflowSteps, currentStep, projectStatus, engine>>

\* The variables of the manager and of its callers.
vars_manager == <<config, endpoint, clients, sessions, init, calls, now, teardown, failedSince,
                  history, scope, reconnect, reload, retired, reply, abandoned>>

(***************************************************************************)
(* Bounds of the exploration.                                              *)
(***************************************************************************)
MaxCalls == 2
MaxTicks == 1
ScenarioCalls == 3
ScenarioTicks == 2
LifecycleCalls == 1
LifecycleTeardowns == 2
TimeoutCalls == 2
ReconnectCalls == 1
ReconnectOps == 2
StatusCalls == 1
StatusTicks == 1
StatusOps == 1
MaxReloads == 1
BreakerOperations == 3
BreakerTicks == 1
ConcurrentCalls == 3
ConcurrentTicks == 1
SessionsCalls == 1
SessionsOps == 2
PaywallCalls == 5
MaxFreeCalls == 3
MaxIncrements == 4
WorkflowOps == 3
TerminationOperations == 3

\* The concurrent callers of callTool.
Callers == {1, 2}

(***************************************************************************)
(* Helpers.                                                                *)
(***************************************************************************)
Min(a, b) == IF a <= b THEN a ELSE b
Max(a, b) == IF a >= b THEN a ELSE b

RECURSIVE Pow(_, _)
Pow(b, e) == IF e <= 0 THEN 1 ELSE b * Pow(b, e - 1)

\* { ...d, ...o }: every key of d, overridden by o where o has the key.
Spread(d, o) == [k \in (DOMAIN d) \cup (DOMAIN o) |-> IF k \in DOMAIN o THEN o[k] ELSE d[k]]

\* An absent (undefined) retryConfig / circuitBreaker override.
NoOverride == [k \in {} |-> 0]

(***************************************************************************)
(* Configuration.                                                          *)
(***************************************************************************)
defaultRetryConfig ==
  [maxRetries |-> 3, retryDelay |-> 1000, backoffMultiplier |-> 2, maxDelay |-> 30000]

defaultCircuitBreakerConfig ==
  [failureThreshold |-> 5, resetTimeout |-> 60000, monitoringPeriod |-> 30000]

\* Server alpha overrides every retry and breaker field and sets a timeout.
AlphaConfig ==
  [name |-> "alpha", type |-> "stdio", command |-> TRUE, url |-> "none", disabled |-> FALSE,
   timeout |-> 5000,
   retryConfig |-> [maxRetries |-> 2, retryDelay |-> 100, backoffMultiplier |-> 2, maxDelay |-> 1000],
   circuitBreaker |-> [failureThreshold |-> 3, resetTimeout |-> 60000]]

\* Server beta overrides maxDelay only: everything else is the default, and
\* it has no timeout (0 stands for the absent field).
BetaConfig ==
  [name |-> "beta", type |-> "sse", command |-> FALSE, url |-> "good", disabled |-> FALSE,
   timeout |-> 0,
   retryConfig |-> [maxDelay |-> 1500],
   circuitBreaker |-> NoOverride]

FixedConfig == <<AlphaConfig, BetaConfig>>

\* Server gamma retries once and trips its breaker on the second failure.
GammaConfig ==
  [name |-> "gamma", type |-> "stdio", command |-> TRUE, url |-> "none", disabled |-> FALSE,
   timeout |-> 0,
   retryConfig |-> [maxRetries |-> 1, retryDelay |-> 100],
   circuitBreaker |-> [failureThreshold |-> 2]]

ConfigNames(cfgs) == {cfgs[i].name : i \in DOMAIN cfgs}

\* this.config[name]
ConfigOf(name) == config[CHOOSE i \in DOMAIN config : config[i].name = name]

\* The tools each server starts out with.
BaseTools(name) ==
  IF name = "alpha"
  THEN <<[name |-> "a1", description |-> "d1", inputSchema |-> "s1"],
         [name |-> "a2", description |-> "d2", inputSchema |-> "s2"],
         [name |-> "a3", description |-> "d3", inputSchema |-> "s3"]>>
  ELSE <<[name |-> "b1", description |-> "d1", inputSchema |-> "s1"],
         [name |-> "b2", description |-> "d2", inputSchema |-> "s2"]>>

\* What the server's listTools() answers (toolsResult.tools || []): its tools,
\* one more once the server has grown, none from a bare server.
ToolsOf(name) ==
  IF endpoint[name] = "bare" THEN <<>>
  ELSE IF endpoint[name] = "grown"
  THEN Append(BaseTools(name), [name |-> "new", description |-> "d4", inputSchema |-> "s4"])
  ELSE BaseTools(name)

\* The tool a caller passes to callTool (the manager never inspects it).
CallTools == {"t"}

\* How far the clock may move between two events.
TickSteps == {1000, 60000}

(***************************************************************************)
(* The Map this.clients.                                                   *)
(***************************************************************************)
MapHas(m, k) == \E i \in DOMAIN m : m[i][1] = k
\* Variant: every name resolves to the session stored first.
MapGet_first(m, k) == m[1][2]
MapGet(m, k) == m[CHOOSE i \in DOMAIN m : m[i][1] = k][2]
MapSet(m, k, v) ==
  IF MapHas(m, k)
  THEN [i \in DOMAIN m |-> IF m[i][1] = k THEN <<k, v>> ELSE m[i]]
  ELSE Append(m, <<k, v>>)
MapKeys(m) == {m[i][1] : i \in DOMAIN m}

(***************************************************************************)
(* Circuit breaker.                                                        *)
(***************************************************************************)
ZeroBreaker == [failures |-> 0, lastFailureTime |-> 0, state |-> "closed", nextRetryTime |-> 0]

circuitConfigOf(cfg) == Spread(defaultCircuitBreakerConfig, cfg.circuitBreaker)
retryConfigOf(cfg) == Spread(defaultRetryConfig, cfg.retryConfig)

\* Variant: the gate compares the clock with the wrong timestamp.
isCircuitBreakerOpen_wrongStamp(cb, t) ==
  IF cb.state = "open"
  THEN IF t >= cb.lastFailureTime
       THEN [pass |-> TRUE, cb |-> [cb EXCEPT !.state = "half-open", !.failures = 0]]
       ELSE [pass |-> FALSE, cb |-> cb]
  ELSE [pass |-> TRUE, cb |-> cb]

\* Variant: the probe is let through only after nextRetryTime has passed.
isCircuitBreakerOpen_late(cb, t) ==
  IF cb.state = "open"
  THEN IF t > cb.nextRetryTime
       THEN [pass |-> TRUE, cb |-> [cb EXCEPT !.state = "half-open", !.failures = 0]]
       ELSE [pass |-> FALSE, cb |-> cb]
  ELSE [pass |-> TRUE, cb |-> cb]

\* isCircuitBreakerOpen(client): the value it returns (TRUE lets the call
\* through) and the breaker it leaves behind.
isCircuitBreakerOpen(cb, t) ==
  IF cb.state = "open"
  THEN IF t >= cb.nextRetryTime
       THEN [pass |-> TRUE, cb |-> [cb EXCEPT !.state = "half-open", !.failures = 0]]
       ELSE [pass |-> FALSE, cb |-> cb]
  ELSE [pass |-> TRUE, cb |-> cb]

\* Variant: the breaker opens only above the threshold.
recordFailure_strict(cb, cfg, t) ==
  LET cc == circuitConfigOf(cfg)
      counted == [cb EXCEPT !.failures = @ + 1, !.lastFailureTime = t]
  IN IF counted.failures > cc.failureThreshold
     THEN [counted EXCEPT !.state = "open", !.nextRetryTime = t + cc.resetTimeout]
     ELSE counted

\* Variant: nextRetryTime is set only by the failure that opens the breaker.
recordFailure_onTrip(cb, cfg, t) ==
  LET cc == circuitConfigOf(cfg)
      counted == [cb EXCEPT !.failures = @ + 1, !.lastFailureTime = t]
  IN IF counted.failures >= cc.failureThreshold
     THEN IF cb.state = "open"
          THEN counted
          ELSE [counted EXCEPT !.state = "open", !.nextRetryTime = t + cc.resetTimeout]
     ELSE counted

\* Variant: any failure on a half-open breaker re-opens it.
recordFailure_probe(cb, cfg, t) ==
  LET cc == circuitConfigOf(cfg)
      counted == [cb EXCEPT !.failures = @ + 1, !.lastFailureTime = t]
  IN IF counted.failures >= cc.failureThreshold \/ cb.state = "half-open"
     THEN [counted EXCEPT !.state = "open", !.nextRetryTime = t + cc.resetTimeout]
     ELSE counted

\* recordFailure(client)
recordFailure(cb, cfg, t) ==
  LET cc == circuitConfigOf(cfg)
      counted == [cb EXCEPT !.failures = @ + 1, !.lastFailureTime = t]
  IN IF counted.failures >= cc.failureThreshold
     THEN [counted EXCEPT !.state = "open", !.nextRetryTime = t + cc.resetTimeout]
     ELSE counted

\* Variant: the reset is done only where the code logs it (state not closed).
resetCircuitBreakerInternal_onlyIfOpen(cb) ==
  IF cb.state # "closed"
  THEN [cb EXCEPT !.state = "closed", !.failures = 0, !.lastFailureTime = 0, !.nextRetryTime = 0]
  ELSE cb

\* resetCircuitBreakerInternal(client)
resetCircuitBreakerInternal(cb) ==
  [cb EXCEPT !.state = "closed", !.failures = 0, !.lastFailureTime = 0, !.nextRetryTime = 0]

\* Variant: the delay is not capped.
backoffDelay_uncapped(rc, attempt) == rc.retryDelay * Pow(rc.backoffMultiplier, attempt)

\* The delay callTool sleeps after failed attempt number `attempt`.
backoffDelay(rc, attempt) ==
  Min(rc.retryDelay * Pow(rc.backoffMultiplier, attempt), rc.maxDelay)

(***************************************************************************)
(* initializeClients / initializeClient.                                   *)
(***************************************************************************)
\* initializeClient up to its first await: TRUE when the transport is
\* constructed, FALSE when it throws (missing command / url, unparsable url,
\* unsupported type).
transportConstructs(cfg) ==
  IF cfg.type = "stdio" THEN cfg.command
  ELSE IF cfg.type = "sse" THEN cfg.url = "good"
  ELSE FALSE

\* Variant: a throw of initializeClient is not caught and ends initializeClients.
RECURSIVE initLoop_abort(_, _)
initLoop_abort(cfgs, i) ==
  IF i > Len(cfgs) THEN [pc |-> "done", idx |-> i]
  ELSE IF cfgs[i].disabled THEN initLoop_abort(cfgs, i + 1)
  ELSE IF transportConstructs(cfgs[i]) THEN [pc |-> "connect", idx |-> i]
  ELSE [pc |-> "raised", idx |-> i]

\* The for loop of initializeClients from entry i on, run until it suspends:
\* disabled entries are skipped, a throw of initializeClient is caught and the
\* loop goes on; it suspends in client.connect() or ends.
RECURSIVE initLoop(_, _)
initLoop(cfgs, i) ==
  IF i > Len(cfgs) THEN [pc |-> "done", idx |-> i]
  ELSE IF cfgs[i].disabled THEN initLoop(cfgs, i + 1)
  ELSE IF transportConstructs(cfgs[i]) THEN [pc |-> "connect", idx |-> i]
  ELSE initLoop(cfgs, i + 1)

\* Variant: the session is given the tool list the server started out with.
newClient_stale(cfg) ==
  [name |-> cfg.name, transport |-> "open", connected |-> TRUE, tools |-> BaseTools(cfg.name),
   config |-> cfg, circuitBreaker |-> ZeroBreaker]

\* The MCPClient object initializeClient installs.
newClient(cfg) ==
  [name |-> cfg.name, transport |-> "open", connected |-> TRUE, tools |-> ToolsOf(cfg.name),
   config |-> cfg, circuitBreaker |-> ZeroBreaker]

\* initializeClients() is invoked (fire-and-forget by the server's constructor).
initializeClients ==
  /\ init.pc = "new"
  /\ init' = initLoop(config, 1)
  /\ UNCHANGED <<vars_paywall, vars_workflow, abandoned, config, endpoint, clients, sessions, calls, now, teardown, failedSince, history, scope, reconnect, reload, retired, reply>>

\* initializeClients() is invoked again, on a manager whose previous run of it
\* has ended: the loop runs over this.config from the start, this.clients as
\* it is.
initializeClientsAgain ==
  /\ init.pc = "done"
  /\ scope.ops > 0
  /\ scope' = [scope EXCEPT !.ops = @ - 1]
  /\ init' = initLoop(config, 1)
  /\ UNCHANGED <<vars_paywall, vars_workflow, abandoned, config, endpoint, clients, sessions, calls, now, teardown, failedSince, history, reconnect, reload, retired, reply>>

\* await client.connect(transport) settles.
connectSettles ==
  /\ init.pc = "connect"
  /\ endpoint[config[init.idx].name] # "hang"
  /\ init' = IF endpoint[config[init.idx].name] = "refuse"
             THEN initLoop(config, init.idx + 1)
             ELSE [init EXCEPT !.pc = "listTools"]
  /\ UNCHANGED <<vars_paywall, vars_workflow, abandoned, config, endpoint, clients, sessions, calls, now, teardown, failedSince, history, scope, reconnect, reload, retired, reply>>

\* await client.listTools() settles; on success the session is installed.
listToolsSettles ==
  /\ init.pc = "listTools"
  /\ LET cfg == config[init.idx] IN
     IF endpoint[cfg.name] = "nolist"
     THEN /\ abandoned' = Append(abandoned, cfg.name)
          /\ UNCHANGED <<clients, sessions, failedSince>>
     ELSE /\ sessions' = Append(sessions, newClient(cfg))
          /\ failedSince' = Append(failedSince, 0)
          /\ clients' = MapSet(clients, cfg.name, Len(sessions) + 1)
          /\ UNCHANGED abandoned
  /\ init' = initLoop(config, init.idx + 1)
  /\ UNCHANGED <<vars_paywall, vars_workflow, config, endpoint, calls, now, teardown, history, scope, reconnect, reload, retired, reply>>

(***************************************************************************)
(* callTool.                                                               *)
(***************************************************************************)
NoError == [kind |-> "none", attempt |-> -1]
UnknownServerError == [kind |-> "unknown-server", attempt |-> -1]
NotConnectedError == [kind |-> "not-connected", attempt |-> -1]
CircuitOpenError == [kind |-> "circuit-open", attempt |-> -1]
\* Variant: every attempt's error reads as the first attempt's.
TransportError_first(k) == [kind |-> "transport", attempt |-> 0]

\* The error the transport produces for attempt number k.
TransportError(k) == [kind |-> "transport", attempt |-> k]

NoResult == [tool |-> "", attempt |-> -1, sess |-> 0]
\* The result the server answers to attempt number k.
ToolResult(id, tool, k) == [tool |-> tool, attempt |-> k, sess |-> id]

\* History kept in a call: what the breaker showed when attempt 0 was handed to
\* the transport (gate), and when the resolving attempt came back (over).
NoGate == [state |-> "none", failures |-> 0]
GateSeen(cb) == [state |-> cb.state, failures |-> cb.failures]

IdleCall ==
  [pc |-> "idle", server |-> "", tool |-> "", sess |-> 0, attempt |-> 0, issued |-> 0,
   gate |-> NoGate, over |-> NoGate, delays |-> <<>>, wakeAt |-> 0, startedAt |-> 0,
   lastError |-> NoError, err |-> NoError, result |-> NoResult]

\* Variant: the loop stops one attempt early.
loopContinues_exclusive(rc, attempt) == attempt < rc.maxRetries

\* for (attempt = 0; attempt <= retryConfig.maxRetries; attempt++)
loopContinues(rc, attempt) == attempt <= rc.maxRetries

\* Variant: the loop sleeps after its last attempt too.
sleepsAfter_always(rc, attempt) == TRUE

\* if (attempt < retryConfig.maxRetries) { ... await this.delay(delay) }
sleepsAfter(rc, attempt) == attempt < rc.maxRetries

\* Variant: the lookup failure is reported as a session that is not connected.
unknownServer_asNotConnected(call) == [call EXCEPT !.pc = "thrown", !.err = NotConnectedError]

\* throw new Error(`MCP服务器未找到: ${serverName}`)
unknownServer(call) == [call EXCEPT !.pc = "thrown", !.err = UnknownServerError]

Busy(c) == calls[c].pc \in {"awaiting", "sleeping"}

\* Variant: the session is looked up in the store again at every attempt.
heldSession_lookup(call) ==
  IF MapHas(clients, call.server) THEN MapGet(clients, call.server) ELSE call.sess

\* const client = this.clients.get(serverName): the session object the
\* invocation holds for all of its attempts.
heldSession(call) == call.sess

\* The server of caller c's invocation answers the requests it receives (a
\* mute one leaves client.callTool() pending).
Answers(c) == endpoint[sessions[calls[c].sess].name] # "mute"

\* The history after invocation `call` completed, leaving breaker `cb`.
Completed(call, cb) ==
  IF scope.history
  THEN Append(history, [server |-> call.server, startedAt |-> call.startedAt, at |-> now,
                        outcome |-> call.pc, err |-> call.err, issued |-> call.issued,
                        gate |-> call.gate, cb |-> cb])
  ELSE history

\* callTool(serverName, toolName) from its invocation to its first await:
\* lookup, connected check, breaker gate, retry configuration, attempt 0.
\* (Callers are interchangeable: caller c is used when the callers before it are busy.)
callTool(c, serverName, toolName) ==
  /\ ~Busy(c)
  /\ c \in scope.callers /\ \A d \in Callers : d < c => Busy(d)
  /\ serverName \in scope.names
  /\ scope.calls > 0
  /\ scope' = [scope EXCEPT !.calls = @ - 1]
  /\ LET base == [IdleCall EXCEPT !.server = serverName, !.tool = toolName,
                                  !.startedAt = IF scope.history THEN now ELSE 0] IN
     IF ~MapHas(clients, serverName)
     THEN LET end == unknownServer(base) IN
          /\ calls' = [calls EXCEPT ![c] = end]
          /\ history' = Completed(end, ZeroBreaker)
          /\ UNCHANGED <<sessions, failedSince>>
     ELSE
       LET id == MapGet(clients, serverName)
           client == sessions[id]
           gate == isCircuitBreakerOpen(client.circuitBreaker, now)
           rc == retryConfigOf(client.config)
           here == [base EXCEPT !.sess = id]
       IN
       IF ~client.connected
       THEN LET end == [here EXCEPT !.pc = "thrown", !.err = NotConnectedError] IN
            /\ calls' = [calls EXCEPT ![c] = end]
            /\ history' = Completed(end, client.circuitBreaker)
            /\ UNCHANGED <<sessions, failedSince>>
       ELSE
         LET go == IF ~gate.pass
                   THEN [here EXCEPT !.pc = "thrown", !.err = CircuitOpenError]
                   ELSE IF loopContinues(rc, 0)
                   THEN [here EXCEPT !.pc = "awaiting", !.attempt = 0, !.issued = 1,
                                     !.gate = GateSeen(gate.cb)]
                   ELSE [here EXCEPT !.pc = "thrown", !.err = NoError, !.gate = GateSeen(gate.cb)]
         IN
         /\ sessions' = [sessions EXCEPT ![id].circuitBreaker = gate.cb]
         /\ failedSince' =
              IF client.circuitBreaker.state = "open" /\ gate.cb.state = "half-open"
              THEN [failedSince EXCEPT ![id] = 0] ELSE failedSince
         /\ calls' = [calls EXCEPT ![c] = go]
         /\ history' = IF go.pc = "thrown" THEN Completed(go, gate.cb) ELSE history
  /\ UNCHANGED <<vars_paywall, vars_workflow, abandoned, config, endpoint, clients, init, now, teardown, reconnect, reload, retired, reply>>

\* await executeToolCall(...) resolves in attempt calls[c].attempt (a transport
\* whose close() has been called carries no answer, so the attempts made on
\* one do not resolve).
attemptResolves(c) ==
  /\ calls[c].pc = "awaiting"
  /\ Answers(c)
  /\ sessions[calls[c].sess].transport = "open"
  /\ LET id == heldSession(calls[c])
         cb == resetCircuitBreakerInternal(sessions[id].circuitBreaker)
         end == [calls[c] EXCEPT !.pc = "returned",
                                 !.over = GateSeen(sessions[id].circuitBreaker),
                                 !.result = ToolResult(id, calls[c].tool, calls[c].attempt)]
     IN
     /\ sessions' = [sessions EXCEPT ![id].circuitBreaker = cb]
     /\ failedSince' = [failedSince EXCEPT ![id] = 0]
     /\ calls' = [calls EXCEPT ![c] = end]
     /\ history' = Completed(end, cb)
  /\ UNCHANGED <<vars_paywall, vars_workflow, abandoned, config, endpoint, clients, init, now, teardown, scope, reconnect, reload, retired, reply>>

\* await executeToolCall(...) rejects in attempt calls[c].attempt.
attemptRejects(c) ==
  /\ calls[c].pc = "awaiting"
  /\ Answers(c)
  /\ LET id == heldSession(calls[c])
         client == sessions[id]
         rc == retryConfigOf(client.config)
         error == TransportError(calls[c].attempt)
         delay == backoffDelay(rc, calls[c].attempt)
         cb == recordFailure(client.circuitBreaker, client.config, now)
         failed == [calls[c] EXCEPT !.lastError = error]
         go == IF sleepsAfter(rc, calls[c].attempt)
               THEN [failed EXCEPT !.pc = "sleeping", !.delays = Append(@, delay),
                                   !.wakeAt = now + delay]
               ELSE IF loopContinues(rc, calls[c].attempt + 1)
               THEN [failed EXCEPT !.attempt = @ + 1, !.issued = @ + 1]
               ELSE [failed EXCEPT !.pc = "thrown", !.err = error]
     IN
     /\ sessions' = [sessions EXCEPT ![id].circuitBreaker = cb]
     /\ failedSince' = [failedSince EXCEPT ![id] = @ + 1]
     /\ calls' = [calls EXCEPT ![c] = go]
     /\ history' = IF go.pc = "thrown" THEN Completed(go, cb) ELSE history
  /\ UNCHANGED <<vars_paywall, vars_workflow, abandoned, config, endpoint, clients, init, now, teardown, scope, reconnect, reload, retired, reply>>

\* The setTimeout of this.delay(ms) fires (timers fire in deadline order, not
\* before their deadline); the loop goes to its next attempt, or ends and
\* callTool throws lastError.
delayElapses(c) ==
  /\ calls[c].pc = "sleeping"
  /\ \A d \in Callers : calls[d].pc = "sleeping" => calls[c].wakeAt <= calls[d].wakeAt
  /\ now' = Max(now, calls[c].wakeAt)
  /\ LET rc == retryConfigOf(sessions[calls[c].sess].config)
         woken == [calls[c] EXCEPT !.wakeAt = 0]
         go == IF loopContinues(rc, calls[c].attempt + 1)
               THEN [woken EXCEPT !.pc = "awaiting", !.attempt = @ + 1, !.issued = @ + 1]
               ELSE [woken EXCEPT !.pc = "thrown", !.err = calls[c].lastError]
     IN
     /\ calls' = [calls EXCEPT ![c] = go]
     /\ history' = IF go.pc = "thrown"
                   THEN Completed(go, sessions[calls[c].sess].circuitBreaker) ELSE history
  /\ UNCHANGED <<vars_paywall, vars_workflow, abandoned, config, endpoint, clients, sessions, init, teardown, failedSince, scope, reconnect, reload, retired, reply>>

\* Time passes.  The clock is read only by recordFailure, by the timers and by
\* the gate of an open breaker, so the passing of time is explored while some
\* breaker is open, and never beyond the deadline of a pending timer (timers
\* move the clock themselves, in delayElapses).
Tick(d) ==
  /\ scope.ticks > 0
  /\ \E i \in DOMAIN sessions : sessions[i].circuitBreaker.state = "open"
  /\ \A c \in Callers : calls[c].pc = "sleeping" => now + d <= calls[c].wakeAt
  /\ scope' = [scope EXCEPT !.ticks = @ - 1]
  /\ now' = now + d
  /\ UNCHANGED <<vars_paywall, vars_workflow, abandoned, config, endpoint, clients, sessions, init, calls, teardown, failedSince, history, reconnect, reload, retired, reply>>

(***************************************************************************)
(* disconnectAll.                                                          *)
(***************************************************************************)
\* No disconnectAll() invocation in progress.
IdleTeardown == [pc |-> "idle", idx |-> 0, sess |-> 0]

\* Variant: closing the transport marks the session as not connected.
closeTransport_flagged(ss, id) == [ss EXCEPT ![id].transport = "closed", ![id].connected = FALSE]

\* client.transport.close() is called on session id.
closeTransport(ss, id) == [ss EXCEPT ![id].transport = "closed"]

\* disconnectAll() from its invocation to its first await.  The for-of loop
\* walks the live Map; over an empty Map it runs through to clients.clear().
disconnectAll ==
  /\ teardown.pc = "idle"
  /\ scope.teardowns > 0
  /\ scope' = [scope EXCEPT !.teardowns = @ - 1]
  /\ IF Len(clients) = 0
     THEN /\ teardown' = IdleTeardown
          /\ UNCHANGED <<clients, sessions>>
     ELSE /\ teardown' = [pc |-> "closing", idx |-> 1, sess |-> clients[1][2]]
          /\ sessions' = closeTransport(sessions, clients[1][2])
          /\ UNCHANGED clients
  /\ UNCHANGED <<vars_paywall, vars_workflow, abandoned, config, endpoint, init, calls, now, failedSince, history, reconnect, reload, retired, reply>>

\* Variant: a rejection of transport.close() is not caught and ends disconnectAll.
closeCaught_abort(td, m, ok) ==
  IF ~ok THEN [td EXCEPT !.pc = "raised"]
  ELSE IF td.idx < Len(m) THEN [pc |-> "closing", idx |-> td.idx + 1, sess |-> m[td.idx + 1][2]]
  ELSE IdleTeardown

\* Where disconnectAll goes when the await on entry td.idx has settled, resolved
\* (ok) or rejected (caught and logged): on to the next entry of the live Map,
\* or out of the loop to clients.clear().
closeCaught(td, m, ok) ==
  IF td.idx < Len(m) THEN [pc |-> "closing", idx |-> td.idx + 1, sess |-> m[td.idx + 1][2]]
  ELSE IdleTeardown

\* What a transport is once its close() has settled: closed, or, when close()
\* rejected, not cleanly closed.
closeOutcome(ss, id, ok) == IF ok THEN ss ELSE [ss EXCEPT ![id].transport = "unclosed"]

\* await client.transport.close() settles: the loop closes the next entry of
\* the Map, or ends with clients.clear().
closeSettles ==
  /\ teardown.pc = "closing"
  /\ \E ok \in BOOLEAN :
       LET go == closeCaught(teardown, clients, ok)
           settled == closeOutcome(sessions, teardown.sess, ok)
       IN
       /\ teardown' = go
       /\ IF go.pc = "closing"
          THEN /\ sessions' = closeTransport(settled, go.sess)
               /\ UNCHANGED clients
          ELSE IF go.pc = "idle"
          THEN /\ clients' = <<>>
               /\ sessions' = settled
          ELSE /\ sessions' = settled
               /\ UNCHANGED clients
  /\ UNCHANGED <<vars_paywall, vars_workflow, abandoned, config, endpoint, init, calls, now, failedSince, history, scope, reconnect, reload, retired, reply>>

(***************************************************************************)
(* Introspection.                                                          *)
(***************************************************************************)
\* getServerStatus()
getServerStatus(m, ss) ==
  [n \in MapKeys(m) |->
     LET client == ss[MapGet(m, n)] IN
     [connected |-> client.connected,
      toolCount |-> Len(client.tools),
      tools |-> [i \in DOMAIN client.tools |-> client.tools[i].name]]]

\* Variant: the descriptor carries the tool's own name where the server's belongs.
descriptor_untagged(serverName, tool) ==
  [serverName |-> tool.name, toolName |-> tool.name,
   description |-> tool.description, inputSchema |-> tool.inputSchema]

\* The descriptor getAllAvailableTools pushes for one tool of one session.
descriptor(serverName, tool) ==
  [serverName |-> serverName, toolName |-> tool.name,
   description |-> tool.description, inputSchema |-> tool.inputSchema]

\* The loops of getAllAvailableTools from entry i of the Map on.
RECURSIVE toolsFrom(_, _, _)
toolsFrom(m, ss, i) ==
  IF i > Len(m) THEN <<>>
  ELSE LET client == ss[m[i][2]]
           own == IF client.connected
                  THEN [k \in DOMAIN client.tools |-> descriptor(m[i][1], client.tools[k])]
                  ELSE <<>>
       IN own \o toolsFrom(m, ss, i + 1)

\* getAllAvailableTools()
getAllAvailableTools(m, ss) == toolsFrom(m, ss, 1)

\* getCircuitBreakerStats()
getCircuitBreakerStats(m, ss) ==
  [n \in MapKeys(m) |->
     LET cb == ss[MapGet(m, n)].circuitBreaker IN
     [state |-> cb.state, failures |-> cb.failures,
      lastFailureTime |-> cb.lastFailureTime, nextRetryTime |-> cb.nextRetryTime]]

(***************************************************************************)
(* reconnectServer.                                                        *)
(***************************************************************************)
\* No reconnectServer() invocation in progress.
IdleReconnect == [pc |-> "idle", name |-> "", old |-> 0, ret |-> FALSE]

\* reconnectServer returns v.
Returned(rc, v) == [rc EXCEPT !.pc = "returned", !.ret = v]

\* const client = this.clients.get(serverName); if (!client) return false
reconnectLookup(m, serverName) == IF MapHas(m, serverName) THEN "close" ELSE "return"

\* initializeClient(serverName, this.config[serverName]) up to its first await,
\* inside the try of reconnectServer: suspended in client.connect(), or
\* thrown, caught, and false returned.
reconnectInitializes(rc) ==
  IF transportConstructs(ConfigOf(rc.name)) THEN [rc EXCEPT !.pc = "connect"]
  ELSE Returned(rc, FALSE)

\* reconnectServer(serverName) from its invocation to its first await.
reconnectServer(serverName) ==
  /\ reconnect.pc \in {"idle", "returned"}
  /\ scope.ops > 0
  /\ serverName \in scope.names
  /\ scope' = [scope EXCEPT !.ops = @ - 1]
  /\ LET step == reconnectLookup(clients, serverName)
         here == [IdleReconnect EXCEPT !.name = serverName]
     IN
     IF step = "close"
     THEN /\ reconnect' = [here EXCEPT !.pc = "closing", !.old = MapGet(clients, serverName)]
          /\ sessions' = closeTransport(sessions, MapGet(clients, serverName))
     ELSE /\ reconnect' = Returned(here, FALSE)
          /\ UNCHANGED sessions
  /\ UNCHANGED <<vars_paywall, vars_workflow, abandoned, config, endpoint, clients, init, calls, now, teardown, failedSince, history,
                 reload, retired, reply>>

\* await client.transport.close() settles in reconnectServer: a rejection is
\* caught and false returned, otherwise initializeClient starts.
reconnectCloseSettles ==
  /\ reconnect.pc = "closing"
  /\ \E ok \in BOOLEAN :
       /\ sessions' = closeOutcome(sessions, reconnect.old, ok)
       /\ reconnect' = IF ok THEN reconnectInitializes(reconnect) ELSE Returned(reconnect, FALSE)
  /\ UNCHANGED <<vars_paywall, vars_workflow, abandoned, config, endpoint, clients, init, calls, now, teardown, failedSince, history, scope,
                 reload, retired, reply>>

\* await client.connect(transport) settles in the initializeClient of reconnectServer.
reconnectConnectSettles ==
  /\ reconnect.pc = "connect"
  /\ endpoint[reconnect.name] # "hang"
  /\ reconnect' = IF endpoint[reconnect.name] = "refuse"
                  THEN Returned(reconnect, FALSE)
                  ELSE [reconnect EXCEPT !.pc = "listTools"]
  /\ UNCHANGED <<vars_paywall, vars_workflow, abandoned, config, endpoint, clients, sessions, init, calls, now, teardown, failedSince,
                 history, scope, reload, retired, reply>>

\* await client.listTools() settles in the initializeClient of reconnectServer:
\* on success the new session is put into the Map and true returned.
reconnectListToolsSettles ==
  /\ reconnect.pc = "listTools"
  /\ IF endpoint[reconnect.name] = "nolist"
     THEN /\ reconnect' = Returned(reconnect, FALSE)
          /\ abandoned' = Append(abandoned, reconnect.name)
          /\ UNCHANGED <<clients, sessions, failedSince>>
     ELSE /\ sessions' = Append(sessions, newClient(ConfigOf(reconnect.name)))
          /\ failedSince' = Append(failedSince, 0)
          /\ clients' = MapSet(clients, reconnect.name, Len(sessions) + 1)
          /\ reconnect' = Returned(reconnect, TRUE)
          /\ UNCHANGED abandoned
  /\ UNCHANGED <<vars_paywall, vars_workflow, config, endpoint, init, calls, now, teardown, history, scope,
                 reload, retired, reply>>

(***************************************************************************)
(* resetCircuitBreaker and the status operations, as invoked by a client   *)
(* of the manager.                                                         *)
(***************************************************************************)
\* Nothing returned yet.
NoReply == [op |-> "none", arg |-> "", value |-> FALSE]

\* Variant: the reset reaches every session of the store.
resetTargets_all(m, serverName) == {m[i][2] : i \in DOMAIN m}

\* The sessions resetCircuitBreaker(serverName) resets: this.clients.get(serverName), if any.
resetTargets(m, serverName) == IF MapHas(m, serverName) THEN {MapGet(m, serverName)} ELSE {}

\* resetCircuitBreaker(serverName)
resetCircuitBreaker(serverName) ==
  /\ scope.ops > 0
  /\ serverName \in scope.names
  /\ scope' = [scope EXCEPT !.ops = @ - 1]
  /\ LET hit == resetTargets(clients, serverName) IN
     /\ sessions' = [id \in DOMAIN sessions |->
                       IF id \in hit
                       THEN [sessions[id] EXCEPT
                               !.circuitBreaker = resetCircuitBreakerInternal(@)]
                       ELSE sessions[id]]
     /\ failedSince' = [id \in DOMAIN failedSince |-> IF id \in hit THEN 0 ELSE failedSince[id]]
     /\ reply' = [op |-> "resetCircuitBreaker", arg |-> serverName, value |-> hit # {}]
  /\ UNCHANGED <<vars_paywall, vars_workflow, abandoned, config, endpoint, clients, init, calls, now, teardown, history,
                 reconnect, reload, retired>>

\* Variant: the statistics are read through the gate callTool uses.
statsEntry_gated(cb, t) ==
  LET seen == isCircuitBreakerOpen(cb, t).cb IN
  [cb |-> seen,
   entry |-> [state |-> seen.state, failures |-> seen.failures,
              lastFailureTime |-> seen.lastFailureTime, nextRetryTime |-> seen.nextRetryTime]]

\* What getCircuitBreakerStats does with one breaker at time t: the entry it
\* reports and the breaker it leaves.
statsEntry(cb, t) ==
  [cb |-> cb,
   entry |-> [state |-> cb.state, failures |-> cb.failures,
              lastFailureTime |-> cb.lastFailureTime, nextRetryTime |-> cb.nextRetryTime]]

StatusOperations == {"getServerStatus", "getAllAvailableTools", "getCircuitBreakerStats"}

\* One of the three status operations is invoked and returns.
status(op) ==
  /\ scope.ops > 0
  /\ scope' = [scope EXCEPT !.ops = @ - 1]
  /\ IF op = "getCircuitBreakerStats"
     THEN /\ reply' = [op |-> op, arg |-> "",
                       value |-> [n \in MapKeys(clients) |->
                                    statsEntry(sessions[MapGet(clients, n)].circuitBreaker, now).entry]]
          /\ sessions' = [id \in DOMAIN sessions |->
                            IF \E i \in DOMAIN clients : clients[i][2] = id
                            THEN [sessions[id] EXCEPT
                                    !.circuitBreaker = statsEntry(@, now).cb]
                            ELSE sessions[id]]
     ELSE /\ reply' = [op |-> op, arg |-> "",
                       value |-> IF op = "getServerStatus"
                                 THEN getServerStatus(clients, sessions)
                                 ELSE getAllAvailableTools(clients, sessions)]
          /\ UNCHANGED sessions
  /\ UNCHANGED <<vars_paywall, vars_workflow, abandoned, config, endpoint, clients, init, calls, now, teardown, failedSince, history,
                 reconnect, reload, retired>>

\* The environment: a server starts to behave in another way.
endpointShifts(n, b) ==
  /\ scope.ops > 0
  /\ scope' = [scope EXCEPT !.ops = @ - 1]
  /\ endpoint[n] # b
  /\ endpoint' = [endpoint EXCEPT ![n] = b]
  /\ UNCHANGED <<vars_paywall, vars_workflow, abandoned, config, clients, sessions, init, calls, now, teardown, failedSince, history,
                 reconnect, reload, retired, reply>>

(***************************************************************************)
(* reload_mcp_servers: the owner disconnects its manager and replaces it   *)
(* by a new one over the configuration it reads then.                      *)
(***************************************************************************)
\* What mcp.json may hold when it is read again (empty when the file is
\* missing or unreadable: the fallback manager has no servers).
ReloadConfigs == {FixedConfig, <<BetaConfig>>, <<>>}

\* case 'reload_mcp_servers' up to its await: disconnectAll() is invoked on
\* the current manager and runs to its first await.  (The constructor has
\* started initializeClients before any request is served.)
reloadMcpServers ==
  /\ reload.pc = "idle"
  /\ teardown.pc = "idle"
  /\ init.pc # "new"
  /\ scope.reloads > 0
  /\ scope' = [scope EXCEPT !.reloads = @ - 1]
  /\ reload' = [pc |-> "disconnecting"]
  /\ IF Len(clients) = 0
     THEN /\ teardown' = IdleTeardown
          /\ UNCHANGED <<clients, sessions>>
     ELSE /\ teardown' = [pc |-> "closing", idx |-> 1, sess |-> clients[1][2]]
          /\ sessions' = closeTransport(sessions, clients[1][2])
          /\ UNCHANGED clients
  /\ UNCHANGED <<vars_paywall, vars_workflow, abandoned, config, endpoint, init, calls, now, failedSince, history,
                 reconnect, retired, reply>>

\* The handler resumes after await disconnectAll(): initializeMCPClientManager
\* reads the configuration, constructs the new manager and starts its
\* initializeClients; the old manager is dropped, whatever it is still doing.
reloadResumes(cfgs) ==
  /\ reload.pc = "disconnecting"
  /\ teardown.pc = "idle"
  /\ retired' = Append(retired, [config |-> config, clients |-> clients, init |-> init])
  /\ config' = cfgs
  /\ clients' = <<>>
  /\ init' = initLoop(cfgs, 1)
  /\ reload' = [pc |-> "idle"]
  /\ UNCHANGED <<vars_paywall, vars_workflow, abandoned, endpoint, sessions, calls, now, teardown, failedSince, history, scope,
                 reconnect, reply>>

\* await client.connect(transport) settles in the initializeClients of
\* retired manager k.
retiredConnectSettles(k) ==
  /\ retired[k].init.pc = "connect"
  /\ LET old == retired[k]
         name == old.config[old.init.idx].name
     IN
     /\ endpoint[name] # "hang"
     /\ retired' = [retired EXCEPT ![k].init =
                      IF endpoint[name] = "refuse"
                      THEN initLoop(old.config, old.init.idx + 1)
                      ELSE [old.init EXCEPT !.pc = "listTools"]]
  /\ UNCHANGED <<vars_paywall, vars_workflow, abandoned, config, endpoint, clients, sessions, init, calls, now, teardown, failedSince,
                 history, scope, reconnect, reload, reply>>

\* await client.listTools() settles in the initializeClients of retired
\* manager k; on success the session is put into that manager's Map.
retiredListToolsSettles(k) ==
  /\ retired[k].init.pc = "listTools"
  /\ LET old == retired[k]
         cfg == old.config[old.init.idx]
         next == initLoop(old.config, old.init.idx + 1)
     IN
     IF endpoint[cfg.name] = "nolist"
     THEN /\ retired' = [retired EXCEPT ![k].init = next]
          /\ abandoned' = Append(abandoned, cfg.name)
          /\ UNCHANGED <<sessions, failedSince>>
     ELSE /\ sessions' = Append(sessions, newClient(cfg))
          /\ failedSince' = Append(failedSince, 0)
          /\ retired' = [retired EXCEPT ![k].init = next,
                                        ![k].clients = MapSet(@, cfg.name, Len(sessions) + 1)]
          /\ UNCHANGED abandoned
  /\ UNCHANGED <<vars_paywall, vars_workflow, config, endpoint, clients, init, calls, now, teardown, history, scope,
                 reconnect, reload, reply>>

(***************************************************************************)
(* Paywall (src/core/Paywall.ts, the local-file counter) and the paywalled  *)
(* tools of the owner: the role tools and run_full_workflow.               *)
(***************************************************************************)
\* new Paywall(3, ...): the free calls the server grants.
serverFreeCalls == 3

\* getDeviceId(): the id of this machine.
LocalDevice == "local"
\* The device ids a count is kept for; "constructor" is a name every object
\* inherits from Object.prototype.
Devices == {LocalDevice, "d1", "constructor"}
\* The property names a plain object inherits.
ObjectPrototypeNames == {"constructor"}
\* args.deviceId as the tools receive it ("" when absent).
DeviceArgs == {"", "d1"}
\* deviceId as incrementCalls / resetCalls receive it ("" when absent).
CounterArgs == {"", "d1", "constructor"}

\* The JavaScript values a count can be: a number, a string that is not the
\* text of a number, a function, undefined, NaN.
Num(n) == [type |-> "number", n |-> n]
Str == [type |-> "string", n |-> 0]
Fn == [type |-> "function", n |-> 0]
Undefined == [type |-> "undefined", n |-> 0]
NaN == [type |-> "NaN", n |-> 0]

\* v || 0
orZero(v) ==
  IF v.type \in {"string", "function"} \/ (v.type = "number" /\ v.n # 0) THEN v ELSE Num(0)

\* v + 1: a number is added to, anything else is made a string and "1" appended.
plusOne(v) == IF v.type = "number" THEN Num(v.n + 1) ELSE Str

\* v >= k for a number k: a value that does not convert to a number compares false.
atLeast(v, k) == v.type = "number" /\ v.n >= k

\* Math.max(0, k - v)
maxZeroMinus(k, v) == IF v.type = "number" THEN Num(Max(0, k - v.n)) ELSE NaN

\* counterMap[id]: the object's own property, else what it inherits.
lookup(counterMap, id) ==
  IF counterMap[id] # Undefined THEN counterMap[id]
  ELSE IF id \in ObjectPrototypeNames THEN Fn
  ELSE Undefined

\* let counterMap = {}: no own property.
NoCounts == [d \in Devices |-> Undefined]
\* counter.json does not exist.
NoFile == [exists |-> FALSE, parses |-> TRUE, counterMap |-> NoCounts]
\* counter.json as it can be found when the Paywall is first used: missing,
\* not JSON, or an empty map.
FoundFiles ==
  {NoFile,
   [exists |-> TRUE, parses |-> FALSE, counterMap |-> NoCounts],
   [exists |-> TRUE, parses |-> TRUE, counterMap |-> NoCounts]}

\* The counter map incrementCalls starts from: the file's, or {} when the file
\* is missing or JSON.parse throws.
readCounterMap(file) == IF file.exists /\ file.parses THEN file.counterMap ELSE NoCounts

\* incrementCalls(deviceId): the file it writes and the count it returns.
incrementCalls(file, id) ==
  LET before == readCounterMap(file)
      counterMap == [before EXCEPT ![id] = plusOne(orZero(lookup(before, id)))]
  IN [file |-> [exists |-> TRUE, parses |-> TRUE, counterMap |-> counterMap],
      calls |-> counterMap[id]]

\* getCalls(deviceId)
getCalls(file, id) ==
  IF ~file.exists THEN Num(0)
  ELSE IF file.parses THEN orZero(lookup(file.counterMap, id))
  ELSE Num(0)

\* needsPayment(deviceId)
needsPayment(file, id) == atLeast(getCalls(file, id), freeCalls)

\* getRemainingFreeCalls(deviceId)
getRemainingFreeCalls(file, id) == maxZeroMinus(freeCalls, getCalls(file, id))

\* resetCalls(deviceId): the file it leaves.
resetCalls(file, id) ==
  IF ~file.exists THEN file
  ELSE IF file.parses THEN [file EXCEPT !.counterMap[id] = Undefined]
  ELSE file

\* const deviceId = args.deviceId || this.paywall.getStatus().deviceId
\* (and const id = deviceId || this.getDeviceId() in the Paywall).
deviceIdOf(arg) == IF arg # "" THEN arg ELSE LocalDevice

\* A role tool or run_full_workflow is invoked: the paywall check, to the
\* payment_required answer or to the await of the role run.
paywalledTool(arg) ==
  /\ Len(paywalled) < PaywallCalls
  /\ LET deviceId == deviceIdOf(arg)
         counted == incrementCalls(counterFile, deviceId)
     IN
     /\ counterFile' = counted.file
     /\ incrementedSince' = [incrementedSince EXCEPT ![deviceId] = @ + 1]
     /\ paywalled' =
          Append(paywalled,
                 [deviceId |-> deviceId, calls_used |-> counted.calls,
                  outcome |-> IF needsPayment(counted.file, deviceId)
                              THEN "payment_required" ELSE "running",
                  remaining_free_calls |-> Undefined])
  /\ UNCHANGED <<freeCalls, vars_manager, vars_workflow>>

\* await roleManager.activateAndRun(...) / runAllSteps(...) settles in
\* invocation k: the success answer is built, or the error is thrown on.
roleRunSettles(k, ok) ==
  /\ paywalled[k].outcome = "running"
  /\ paywalled' =
       [paywalled EXCEPT ![k] =
          IF ok
          THEN [@ EXCEPT !.outcome = "success",
                         !.remaining_free_calls =
                            getRemainingFreeCalls(counterFile, paywalled[k].deviceId)]
          ELSE [@ EXCEPT !.outcome = "thrown"]]
  /\ UNCHANGED <<counterFile, freeCalls, incrementedSince, vars_manager, vars_workflow>>

\* paywall.incrementCalls(deviceId) is invoked.
incrementCallsInvoked(arg) ==
  /\ incrementedSince[deviceIdOf(arg)] < MaxIncrements
  /\ counterFile' = incrementCalls(counterFile, deviceIdOf(arg)).file
  /\ incrementedSince' = [incrementedSince EXCEPT ![deviceIdOf(arg)] = @ + 1]
  /\ UNCHANGED <<paywalled, freeCalls, vars_manager, vars_workflow>>

\* paywall.resetCalls(deviceId) is invoked.
resetCallsInvoked(arg) ==
  /\ counterFile' = resetCalls(counterFile, deviceIdOf(arg))
  /\ incrementedSince' = [incrementedSince EXCEPT ![deviceIdOf(arg)] = 0]
  /\ UNCHANGED <<paywalled, freeCalls, vars_manager, vars_workflow>>

(***************************************************************************)
(* WorkflowEngine: the seven steps, the manual step and the automatic run. *)
(***************************************************************************)
\* The invocations of the engine's async methods that can be in progress.
Runners == {1, 2}

\* this.workflowSteps.length
totalSteps == 7

\* prerequisites of step-1 .. step-7.
prerequisites == <<{}, {1}, {2}, {3}, {2}, {4, 5}, {6}>>

\* initializeWorkflow(): every step PENDING.
initializeWorkflow == [i \in 1..totalSteps |-> "PENDING"]

\* No invocation in progress in this slot.
IdleRun == [pc |-> "idle", step |-> 0, returned |-> "none"]

\* checkPrerequisites(step) for the step at index i - 1.
checkPrerequisites(steps, i) == \A p \in prerequisites[i] : steps[p] = "COMPLETED"

\* getProjectProgress()
getProjectProgress(steps) ==
  LET completedSteps == Cardinality({i \in DOMAIN steps : steps[i] = "COMPLETED"})
  IN (200 * completedSteps + totalSteps) \div (2 * totalSteps)

\* The head of the while loop of executeAllStepsAutomatically: steps whose
\* prerequisites are unmet are skipped without an await.
RECURSIVE skipUnmet(_, _)
skipUnmet(steps, cs) ==
  IF cs < totalSteps /\ ~checkPrerequisites(steps, cs + 1) THEN skipUnmet(steps, cs + 1) ELSE cs

\* Where the automatic run of runner r waits next, from the loop head with
\* currentStep cs: the activation of a step, or the final report.
loopHead(steps, cs) ==
  LET at == skipUnmet(steps, cs)
  IN [currentStep |-> at,
      run |-> IF at < totalSteps
              THEN [pc |-> "auto_activateRole", step |-> at + 1, returned |-> "none"]
              ELSE [pc |-> "generateAutoFinalReport", step |-> 0, returned |-> "none"]]

\* The end of one pass of the loop body with currentStep cs: the pause
\* between steps, or the loop head (which then exits).
loopTail(steps, cs) ==
  IF cs < totalSteps
  THEN [currentStep |-> cs, run |-> [pc |-> "delay", step |-> 0, returned |-> "none"]]
  ELSE loopHead(steps, cs)

MayRun == engine.ops > 0

\* resetWorkflow(), as the reset command calls it: no invocation of the engine
\* is in progress in its process.
resetWorkflow ==
  /\ MayRun
  /\ \A r \in Runners : engine.run[r].pc = "idle"
  /\ currentStep' = 0
  /\ projectStatus' = "INITIATED"
  /\ workflowSteps' = initializeWorkflow
  /\ engine' = [engine EXCEPT !.ops = @ - 1]
  /\ UNCHANGED <<vars_manager, vars_paywall>>

\* executeNextStep(): to its first return or to the await of activateRole.
executeNextStep(r) ==
  /\ MayRun
  /\ engine.run[r].pc = "idle"
  /\ IF currentStep >= totalSteps
     THEN /\ projectStatus' = "COMPLETED"
          /\ engine' = [engine EXCEPT !.ops = @ - 1, !.run[r].returned = "false"]
     ELSE IF ~checkPrerequisites(workflowSteps, currentStep + 1)
     THEN /\ engine' = [engine EXCEPT !.ops = @ - 1, !.run[r].returned = "false"]
          /\ UNCHANGED projectStatus
     ELSE /\ engine' = [engine EXCEPT !.ops = @ - 1,
                                      !.run[r] = [pc |-> "activateRole", step |-> currentStep + 1,
                                                  returned |-> "none"]]
          /\ UNCHANGED projectStatus
  /\ UNCHANGED <<workflowSteps, currentStep, vars_manager, vars_paywall>>

\* await roleManager.activateRole(...) settles in executeNextStep.
activateRoleSettles(r, success) ==
  /\ engine.run[r].pc = "activateRole"
  /\ IF success
     THEN /\ workflowSteps' = [workflowSteps EXCEPT ![engine.run[r].step] = "IN_PROGRESS"]
          /\ engine' = [engine EXCEPT !.run[r].pc = "waitForUserInput"]
     ELSE /\ engine' = [engine EXCEPT !.run[r] = [IdleRun EXCEPT !.returned = "false"]]
          /\ UNCHANGED workflowSteps
  /\ UNCHANGED <<currentStep, projectStatus, vars_manager, vars_paywall>>

\* The first timer of waitForUserInput fires: this.workflowSteps[this.currentStep]
\* is read, and its duration; past the last step the read throws.
userInputReceived(r) ==
  /\ engine.run[r].pc = "waitForUserInput"
  /\ engine' = [engine EXCEPT !.run[r] =
                  IF currentStep < totalSteps
                  THEN [@ EXCEPT !.pc = "processing"]
                  ELSE [IdleRun EXCEPT !.returned = "thrown"]]
  /\ UNCHANGED <<workflowSteps, currentStep, projectStatus, vars_manager, vars_paywall>>

\* The second timer of waitForUserInput fires: the step is marked COMPLETED.
processingDone(r) ==
  /\ engine.run[r].pc = "processing"
  /\ workflowSteps' = [workflowSteps EXCEPT ![engine.run[r].step] = "COMPLETED"]
  /\ currentStep' = currentStep + 1
  /\ engine' = [engine EXCEPT !.run[r] = [IdleRun EXCEPT !.returned = "true"]]
  /\ UNCHANGED <<projectStatus, vars_manager, vars_paywall>>

\* startAutoWorkflow(projectInfo): to the first await of the loop.
startAutoWorkflow(r) ==
  /\ MayRun
  /\ engine.run[r].pc = "idle"
  /\ LET head == loopHead(initializeWorkflow, 0)
     IN /\ projectStatus' = "INITIATED"
        /\ workflowSteps' = initializeWorkflow
        /\ currentStep' = head.currentStep
        /\ engine' = [engine EXCEPT !.ops = @ - 1, !.run[r] = head.run]
  /\ UNCHANGED <<vars_manager, vars_paywall>>

\* await roleManager.activateRole(...) settles in the automatic run.
autoActivateRoleSettles(r, success) ==
  /\ engine.run[r].pc = "auto_activateRole"
  /\ IF success
     THEN /\ engine' = [engine EXCEPT !.run[r].pc = "executeAutoWorkProcess"]
          /\ UNCHANGED currentStep
     ELSE LET tail == loopTail(workflowSteps, currentStep + 1)
          IN /\ currentStep' = tail.currentStep
             /\ engine' = [engine EXCEPT !.run[r] = tail.run]
  /\ UNCHANGED <<workflowSteps, projectStatus, vars_manager, vars_paywall>>

\* await this.executeAutoWorkProcess(step) settles: the step is marked COMPLETED.
autoWorkDone(r) ==
  /\ engine.run[r].pc = "executeAutoWorkProcess"
  /\ LET steps == [workflowSteps EXCEPT ![engine.run[r].step] = "COMPLETED"]
         tail == loopTail(steps, currentStep + 1)
     IN /\ workflowSteps' = steps
        /\ currentStep' = tail.currentStep
        /\ engine' = [engine EXCEPT !.run[r] = tail.run]
  /\ UNCHANGED <<projectStatus, vars_manager, vars_paywall>>

\* await this.delay(2000) between two steps settles.
autoDelayElapses(r) ==
  /\ engine.run[r].pc = "delay"
  /\ LET head == loopHead(workflowSteps, currentStep)
     IN /\ currentStep' = head.currentStep
        /\ engine' = [engine EXCEPT !.run[r] = head.run]
  /\ UNCHANGED <<workflowSteps, projectStatus, vars_manager, vars_paywall>>

\* await this.generateAutoFinalReport() settles.
autoReportDone(r) ==
  /\ engine.run[r].pc = "generateAutoFinalReport"
  /\ projectStatus' = "COMPLETED"
  /\ engine' = [engine EXCEPT !.run[r].pc = "returning"]
  /\ UNCHANGED <<workflowSteps, currentStep, vars_manager, vars_paywall>>

\* await this.executeAllStepsAutomatically(projectInfo) settles in startAutoWorkflow.
startAutoWorkflowReturns(r) ==
  /\ engine.run[r].pc = "returning"
  /\ projectStatus' = "COMPLETED"
  /\ engine' = [engine EXCEPT !.run[r] = [IdleRun EXCEPT !.returned = "resolved"]]
  /\ UNCHANGED <<workflowSteps, currentStep, vars_manager, vars_paywall>>

(***************************************************************************)
(* Spec: the manager constructed over FixedConfig, every endpoint          *)
(* answering; concurrent callers of alpha and beta.                        *)
(***************************************************************************)
ManagerConstructed(cfgs) ==
  /\ config = cfgs
  /\ clients = <<>>
  /\ sessions = <<>>
  /\ init = [pc |-> "new", idx |-> 0]
  /\ calls = [c \in Callers |-> IdleCall]
  /\ now = 0
  /\ teardown = IdleTeardown
  /\ failedSince = <<>>
  /\ history = <<>>
  /\ reconnect = IdleReconnect
  /\ reload = [pc |-> "idle"]
  /\ retired = <<>>
  /\ reply = NoReply
  /\ abandoned = <<>>

\* new Paywall(limit, ...) over the counter file as it is found.
PaywallConstructed(limit, file) ==
  /\ freeCalls = limit
  /\ counterFile = file
  /\ paywalled = <<>>
  /\ incrementedSince = [d \in Devices |-> 0]

\* new WorkflowEngine(roleManager) with no saved state to restore.
WorkflowConstructed ==
  /\ workflowSteps = initializeWorkflow
  /\ currentStep = 0
  /\ projectStatus = "INITIATED"
  /\ engine = [ops |-> 0, run |-> [r \in Runners |-> IdleRun]]

Constructed(cfgs) ==
  /\ ManagerConstructed(cfgs)
  /\ PaywallConstructed(serverFreeCalls, NoFile)
  /\ WorkflowConstructed

Init ==
  /\ Constructed(FixedConfig)
  /\ endpoint = [n \in ConfigNames(FixedConfig) |-> "ok"]
  /\ scope = [calls |-> MaxCalls, ticks |-> MaxTicks, teardowns |-> 0,
              callers |-> Callers, names |-> {"alpha", "beta"}, history |-> FALSE,
              ops |-> 0, reloads |-> 0]

Next ==
  \/ initializeClients
  \/ connectSettles
  \/ listToolsSettles
  \/ \E c \in Callers, n \in scope.names, t \in CallTools : callTool(c, n, t)
  \/ \E c \in Callers : attemptResolves(c)
  \/ \E c \in Callers : attemptRejects(c)
  \/ \E c \in Callers : delayElapses(c)
  \/ \E d \in TickSteps : Tick(d)

Spec == Init /\ [][Next]_vars

(***************************************************************************)
(* SpecScenario: one caller issuing sequential calls to alpha, the         *)
(* completed invocations kept in `history`.                                *)
(***************************************************************************)
InitScenario ==
  /\ Constructed(FixedConfig)
  /\ endpoint = [n \in ConfigNames(FixedConfig) |-> "ok"]
  /\ scope = [calls |-> ScenarioCalls, ticks |-> ScenarioTicks, teardowns |-> 0,
              callers |-> {1}, names |-> {"alpha"}, history |-> TRUE,
              ops |-> 0, reloads |-> 0]

SpecScenario == InitScenario /\ [][Next]_vars

(***************************************************************************)
(* SpecLifecycle: any configuration of the two servers over any endpoint   *)
(* behaviour; initializeClients, disconnectAll, callers of alpha, beta and *)
(* of a name that is not configured.                                       *)
(***************************************************************************)
\* The ways a server entry can be written.
Kinds ==
  { [type |-> "stdio", command |-> TRUE,  url |-> "none", disabled |-> FALSE],
    [type |-> "stdio", command |-> FALSE, url |-> "none", disabled |-> FALSE],
    [type |-> "sse",   command |-> FALSE, url |-> "good", disabled |-> FALSE],
    [type |-> "sse",   command |-> FALSE, url |-> "none", disabled |-> FALSE],
    [type |-> "ws",    command |-> TRUE,  url |-> "good", disabled |-> FALSE],
    [type |-> "stdio", command |-> TRUE,  url |-> "none", disabled |-> TRUE] }

WithKind(cfg, k) ==
  [cfg EXCEPT !.type = k.type, !.command = k.command, !.url = k.url, !.disabled = k.disabled]

\* Whether initializeClients hands the entry to client.connect().
Attempted(cfg) == ~cfg.disabled /\ transportConstructs(cfg)

EndpointBehaviours == {"ok", "refuse", "nolist", "hang"}

InitLifecycle ==
  /\ \E ka \in Kinds, kb \in Kinds :
       Constructed(<<WithKind(AlphaConfig, ka), WithKind(BetaConfig, kb)>>)
  /\ endpoint \in [ConfigNames(FixedConfig) -> EndpointBehaviours]
  /\ \A i \in DOMAIN config : ~Attempted(config[i]) => endpoint[config[i].name] = "ok"
  /\ scope = [calls |-> LifecycleCalls, ticks |-> 0, teardowns |-> LifecycleTeardowns,
              callers |-> {1}, names |-> {"alpha", "beta", "ghost"}, history |-> FALSE,
              ops |-> 0, reloads |-> 0]

NextLifecycle ==
  \/ initializeClients
  \/ connectSettles
  \/ listToolsSettles
  \/ \E c \in Callers, n \in scope.names, t \in CallTools : callTool(c, n, t)
  \/ \E c \in Callers : attemptResolves(c)
  \/ \E c \in Callers : attemptRejects(c)
  \/ \E c \in Callers : delayElapses(c)
  \/ disconnectAll
  \/ closeSettles

SpecLifecycle == InitLifecycle /\ [][NextLifecycle]_vars

\* The event loop runs every continuation that is ready.
SpecLifecycleFair ==
  /\ SpecLifecycle
  /\ WF_vars(initializeClients) /\ WF_vars(connectSettles) /\ WF_vars(listToolsSettles)

\* SpecLifecycle where every promise the manager awaits in disconnectAll and
\* in the retry loop settles: close() resolves or rejects, timers fire, and
\* the transport answers or fails every request handed to it.
SpecTeardownFair ==
  /\ SpecLifecycle
  /\ WF_vars(closeSettles)
  /\ \A c \in Callers : WF_vars(delayElapses(c))
  /\ \A c \in Callers : WF_vars(attemptResolves(c) \/ attemptRejects(c))

(***************************************************************************)
(* SpecTimeoutFair: servers that answer their tool calls and servers that  *)
(* never do; alpha is configured with timeout 5000.  Every continuation    *)
(* that is ready runs, timers fire, a server that answers answers.         *)
(***************************************************************************)
InitTimeout ==
  /\ Constructed(FixedConfig)
  /\ endpoint \in [ConfigNames(FixedConfig) -> {"ok", "mute"}]
  /\ scope = [calls |-> TimeoutCalls, ticks |-> 0, teardowns |-> 0,
              callers |-> Callers, names |-> {"alpha", "beta"}, history |-> FALSE,
              ops |-> 0, reloads |-> 0]

NextTimeout ==
  \/ initializeClients
  \/ connectSettles
  \/ listToolsSettles
  \/ \E c \in Callers, n \in scope.names, t \in CallTools : callTool(c, n, t)
  \/ \E c \in Callers : attemptResolves(c)
  \/ \E c \in Callers : attemptRejects(c)
  \/ \E c \in Callers : delayElapses(c)

SpecTimeoutFair ==
  /\ InitTimeout /\ [][NextTimeout]_vars
  /\ WF_vars(initializeClients) /\ WF_vars(connectSettles) /\ WF_vars(listToolsSettles)
  /\ \A c \in Callers : WF_vars(delayElapses(c))
  /\ \A c \in Callers : WF_vars(attemptResolves(c) \/ attemptRejects(c))

(***************************************************************************)
(* SpecReconnect: one caller of callTool and a client invoking             *)
(* reconnectServer, over servers that answer or refuse and that may change *)
(* their behaviour.                                                        *)
(***************************************************************************)
\* What a server can change its behaviour to.
ShiftTargets == {"ok", "refuse", "nolist", "grown"}

InitReconnect ==
  /\ Constructed(FixedConfig)
  /\ endpoint \in [ConfigNames(FixedConfig) -> {"ok", "refuse"}]
  /\ scope = [calls |-> ReconnectCalls, ticks |-> 0, teardowns |-> 0,
              callers |-> {1}, names |-> {"alpha", "beta", "ghost"}, history |-> FALSE,
              ops |-> ReconnectOps, reloads |-> 0]

NextReconnect ==
  \/ initializeClients
  \/ connectSettles
  \/ listToolsSettles
  \/ \E c \in Callers, n \in scope.names, t \in CallTools : callTool(c, n, t)
  \/ \E c \in Callers : attemptResolves(c)
  \/ \E c \in Callers : attemptRejects(c)
  \/ \E c \in Callers : delayElapses(c)
  \/ \E n \in scope.names : reconnectServer(n)
  \/ reconnectCloseSettles
  \/ reconnectConnectSettles
  \/ reconnectListToolsSettles
  \/ \E n \in ConfigNames(config), b \in ShiftTargets : endpointShifts(n, b)

SpecReconnect == InitReconnect /\ [][NextReconnect]_vars

(***************************************************************************)
(* SpecStatus: one caller of callTool and a client invoking                *)
(* resetCircuitBreaker and the status operations, over servers that        *)
(* answer, refuse, or list no tools.                                       *)
(***************************************************************************)
InitStatus ==
  /\ Constructed(FixedConfig)
  /\ endpoint \in [ConfigNames(FixedConfig) -> {"ok", "bare", "refuse"}]
  /\ scope = [calls |-> StatusCalls, ticks |-> StatusTicks, teardowns |-> 0,
              callers |-> {1}, names |-> {"alpha", "beta", "ghost"}, history |-> FALSE,
              ops |-> StatusOps, reloads |-> 0]

NextStatus ==
  \/ Next
  \/ \E n \in scope.names : resetCircuitBreaker(n)
  \/ \E op \in StatusOperations : status(op)

SpecStatus == InitStatus /\ [][NextStatus]_vars

(***************************************************************************)
(* SpecReload: the owner reloading its servers at any moment of the        *)
(* manager's initialization.                                               *)
(***************************************************************************)
InitReload ==
  /\ Constructed(FixedConfig)
  /\ endpoint \in [ConfigNames(FixedConfig) -> {"ok", "refuse", "nolist"}]
  /\ scope = [calls |-> 0, ticks |-> 0, teardowns |-> 0,
              callers |-> {}, names |-> {}, history |-> FALSE,
              ops |-> 0, reloads |-> MaxReloads]

NextReload ==
  \/ initializeClients
  \/ connectSettles
  \/ listToolsSettles
  \/ reloadMcpServers
  \/ closeSettles
  \/ \E cfgs \in ReloadConfigs : reloadResumes(cfgs)
  \/ \E k \in DOMAIN retired : retiredConnectSettles(k)
  \/ \E k \in DOMAIN retired : retiredListToolsSettles(k)

SpecReload == InitReload /\ [][NextReload]_vars

(***************************************************************************)
(* SpecCounter: incrementCalls and resetCalls of a Paywall built with any  *)
(* free-call limit over a counter file that is missing, unreadable or      *)
(* empty.                                                                  *)
(***************************************************************************)
NoScope ==
  [calls |-> 0, ticks |-> 0, teardowns |-> 0, callers |-> {}, names |-> {},
   history |-> FALSE, ops |-> 0, reloads |-> 0]

InitCounter ==
  /\ ManagerConstructed(FixedConfig)
  /\ \E limit \in 0..MaxFreeCalls, file \in FoundFiles : PaywallConstructed(limit, file)
  /\ WorkflowConstructed
  /\ endpoint = [n \in ConfigNames(FixedConfig) |-> "ok"]
  /\ scope = NoScope

NextCounter ==
  \/ \E arg \in CounterArgs : incrementCallsInvoked(arg)
  \/ \E arg \in CounterArgs : resetCallsInvoked(arg)

SpecCounter == InitCounter /\ [][NextCounter]_vars

(***************************************************************************)
(* SpecWorkflow: executeNextStep, startAutoWorkflow and resetWorkflow on   *)
(* a fresh engine, invocations overlapping at their awaits.                *)
(***************************************************************************)
InitWorkflow ==
  /\ ManagerConstructed(FixedConfig)
  /\ PaywallConstructed(serverFreeCalls, NoFile)
  /\ workflowSteps = initializeWorkflow
  /\ currentStep = 0
  /\ projectStatus = "INITIATED"
  /\ engine = [ops |-> WorkflowOps, run |-> [r \in Runners |-> IdleRun]]
  /\ endpoint = [n \in ConfigNames(FixedConfig) |-> "ok"]
  /\ scope = NoScope

NextWorkflow ==
  \/ resetWorkflow
  \/ \E r \in Runners : executeNextStep(r)
  \/ \E r \in Runners, success \in BOOLEAN : activateRoleSettles(r, success)
  \/ \E r \in Runners : userInputReceived(r)
  \/ \E r \in Runners : processingDone(r)
  \/ \E r \in Runners : startAutoWorkflow(r)
  \/ \E r \in Runners, success \in BOOLEAN : autoActivateRoleSettles(r, success)
  \/ \E r \in Runners : autoWorkDone(r)
  \/ \E r \in Runners : autoDelayElapses(r)
  \/ \E r \in Runners : autoReportDone(r)
  \/ \E r \in Runners : startAutoWorkflowReturns(r)

SpecWorkflow == InitWorkflow /\ [][NextWorkflow]_vars

(***************************************************************************)
(* SpecPaywall: the paywalled tools invoked for this machine and for a     *)
(* device named in the arguments, from a counter file that does not exist. *)
(***************************************************************************)
InitPaywall ==
  /\ Constructed(FixedConfig)
  /\ endpoint = [n \in ConfigNames(FixedConfig) |-> "ok"]
  /\ scope = [calls |-> 0, ticks |-> 0, teardowns |-> 0,
              callers |-> {}, names |-> {}, history |-> FALSE,
              ops |-> 0, reloads |-> 0]

NextPaywall ==
  \/ \E arg \in DeviceArgs : paywalledTool(arg)
  \/ \E k \in DOMAIN paywalled, ok \in BOOLEAN : roleRunSettles(k, ok)

SpecPaywall == InitPaywall /\ [][NextPaywall]_vars

(***************************************************************************)
(* SpecSessions: the sessions a manager of alpha and beta holds while a     *)
(* client reconnects servers and runs initializeClients again, with one    *)
(* caller of callTool.                                                     *)
(***************************************************************************)
InitSessions ==
  /\ Constructed(FixedConfig)
  /\ endpoint = [n \in ConfigNames(FixedConfig) |-> "ok"]
  /\ scope = [calls |-> SessionsCalls, ticks |-> 0, teardowns |-> 0,
              callers |-> {1}, names |-> {"alpha", "beta"}, history |-> FALSE,
              ops |-> SessionsOps, reloads |-> 0]

NextSessions ==
  \/ initializeClients
  \/ initializeClientsAgain
  \/ connectSettles
  \/ listToolsSettles
  \/ \E c \in Callers, n \in scope.names, t \in CallTools : callTool(c, n, t)
  \/ \E c \in Callers : attemptResolves(c)
  \/ \E c \in Callers : attemptRejects(c)
  \/ \E c \in Callers : delayElapses(c)
  \/ \E n \in scope.names : reconnectServer(n)
  \/ reconnectCloseSettles
  \/ reconnectConnectSettles
  \/ reconnectListToolsSettles

SpecSessions == InitSessions /\ [][NextSessions]_vars

(***************************************************************************)
(* SpecConcurrent: a manager of the one server alpha and two callers whose  *)
(* invocations overlap, long enough for the breaker to open, time out and  *)
(* be probed by both.                                                      *)
(***************************************************************************)
InitConcurrent ==
  /\ Constructed(<<AlphaConfig>>)
  /\ endpoint = [n \in ConfigNames(FixedConfig) |-> "ok"]
  /\ scope = [calls |-> ConcurrentCalls, ticks |-> ConcurrentTicks, teardowns |-> 0,
              callers |-> Callers, names |-> {"alpha"}, history |-> FALSE,
              ops |-> 0, reloads |-> 0]

SpecConcurrent == InitConcurrent /\ [][Next]_vars

(***************************************************************************)
(* SpecBreaker: two concurrent callers of the one server alpha, with a     *)
(* client that may reset its breaker or reconnect it while they run.       *)
(***************************************************************************)
InitBreaker ==
  /\ Constructed(<<AlphaConfig>>)
  /\ endpoint = [n \in ConfigNames(FixedConfig) |-> "ok"]
  /\ scope = [calls |-> BreakerOperations, ticks |-> BreakerTicks, teardowns |-> 0,
              callers |-> Callers, names |-> {"alpha"}, history |-> FALSE,
              ops |-> BreakerOperations, reloads |-> 0]

\* The operations invoked so far, of any kind, are fewer than BreakerOperations.
MayInvoke == scope.calls + scope.ops > BreakerOperations

NextBreaker ==
  \/ initializeClients
  \/ connectSettles
  \/ listToolsSettles
  \/ MayInvoke /\ \E c \in Callers, n \in scope.names, t \in CallTools : callTool(c, n, t)
  \/ \E c \in Callers : attemptResolves(c)
  \/ \E c \in Callers : attemptRejects(c)
  \/ \E c \in Callers : delayElapses(c)
  \/ \E d \in TickSteps : Tick(d)
  \/ MayInvoke /\ \E n \in scope.names : resetCircuitBreaker(n)
  \/ MayInvoke /\ \E n \in scope.names : reconnectServer(n)
  \/ reconnectCloseSettles
  \/ reconnectConnectSettles
  \/ reconnectListToolsSettles

SpecBreaker == InitBreaker /\ [][NextBreaker]_vars

(***************************************************************************)
(* SpecTerminationFair: two callers of gamma, whose transport settles      *)
(* every request handed to it, with resetCircuitBreaker, reconnectServer   *)
(* and disconnectAll invoked while they run.  Timers fire.                 *)
(***************************************************************************)
InitTermination ==
  /\ Constructed(<<GammaConfig>>)
  /\ endpoint = [n \in ConfigNames(<<GammaConfig>>) |-> "ok"]
  /\ scope = [calls |-> TerminationOperations, ticks |-> 0, teardowns |-> TerminationOperations,
              callers |-> Callers, names |-> {"gamma"}, history |-> FALSE,
              ops |-> TerminationOperations, reloads |-> 0]

\* The operations invoked so far, of any kind, are fewer than TerminationOperations.
MayOperate == scope.calls + scope.ops + scope.teardowns > 2 * TerminationOperations

NextTermination ==
  \/ initializeClients
  \/ connectSettles
  \/ listToolsSettles
  \/ MayOperate /\ \E c \in Callers, n \in scope.names, t \in CallTools : callTool(c, n, t)
  \/ \E c \in Callers : attemptResolves(c)
  \/ \E c \in Callers : attemptRejects(c)
  \/ \E c \in Callers : delayElapses(c)
  \/ MayOperate /\ \E n \in scope.names : resetCircuitBreaker(n)
  \/ MayOperate /\ \E n \in scope.names : reconnectServer(n)
  \/ reconnectCloseSettles
  \/ reconnectConnectSettles
  \/ reconnectListToolsSettles
  \/ MayOperate /\ disconnectAll
  \/ closeSettles

SpecTerminationFair ==
  /\ InitTermination /\ [][NextTermination]_vars
  /\ \A c \in Callers : WF_vars(delayElapses(c))
  /\ \A c \in Callers : WF_vars(attemptResolves(c) \/ attemptRejects(c))

(***************************************************************************)
(* Properties.                                                             *)
(***************************************************************************)
\* The breaker policy of a server: its overrides over the defaults 5 / 60000.
ClaimedThreshold(cfg) ==
  IF "failureThreshold" \in DOMAIN cfg.circuitBreaker
  THEN cfg.circuitBreaker.failureThreshold ELSE 5
ClaimedResetTimeout(cfg) ==
  IF "resetTimeout" \in DOMAIN cfg.circuitBreaker
  THEN cfg.circuitBreaker.resetTimeout ELSE 60000

\* The retry policy of a server: its overrides over the defaults 3 / 1000 / 2 / 30000.
ClaimedRetry(cfg, key, default) ==
  IF key \in DOMAIN cfg.retryConfig THEN cfg.retryConfig[key] ELSE default
ClaimedMaxRetries(cfg) == ClaimedRetry(cfg, "maxRetries", 3)
ClaimedDelay(cfg, i) ==
  Min(ClaimedRetry(cfg, "retryDelay", 1000) * Pow(ClaimedRetry(cfg, "backoffMultiplier", 2), i),
      ClaimedRetry(cfg, "maxDelay", 30000))

\* The caller the next callTool invocation runs in.
NextCaller == CHOOSE c \in scope.callers : ~Busy(c) /\ \A d \in Callers : d < c => Busy(d)
\* This step is a callTool invocation.
Invokes == scope'.calls # scope.calls
\* This step is an attempt of caller c coming back failed.
AttemptFailed(c) ==
  /\ calls[c].pc = "awaiting"
  /\ calls'[c] # calls[c]
  /\ calls'[c].lastError = TransportError(calls[c].attempt)
\* This step is an attempt of caller c coming back with a result.
AttemptSucceeded(c) == calls[c].pc = "awaiting" /\ calls'[c].pc = "returned"

\* C1: immediately after the failed attempt that brings the number of failures
\* recorded since the last reset to failureThreshold, the breaker is open and
\* nextRetryTime is the time of that failure plus resetTimeout.
C1_TripOpensBreaker ==
  [][\A c \in Callers :
       AttemptFailed(c) =>
         LET id == calls[c].sess
             cfg == sessions[id].config
         IN failedSince'[id] = ClaimedThreshold(cfg) =>
              /\ sessions'[id].circuitBreaker.state = "open"
              /\ sessions'[id].circuitBreaker.failures = ClaimedThreshold(cfg)
              /\ sessions'[id].circuitBreaker.nextRetryTime = now + ClaimedResetTimeout(cfg)]_vars

\* beta (default policy) has just been tripped by its fifth recorded failure.
C1_Witness ==
  \E id \in DOMAIN sessions :
    /\ sessions[id].name = "beta"
    /\ failedSince[id] = 5
    /\ sessions[id].circuitBreaker.state = "open"
    /\ sessions[id].circuitBreaker.lastFailureTime = now
    /\ sessions[id].circuitBreaker.nextRetryTime = now + 60000
    /\ now > 0

\* C2: a callTool on an open breaker before nextRetryTime throws the
\* circuit-open error, hands nothing to the transport, records no failure and
\* leaves the breaker as it was.
C2_OpenGateRejects ==
  [][Invokes =>
       LET c == NextCaller
           n == calls'[c].server
       IN (/\ MapHas(clients, n)
           /\ sessions[MapGet(clients, n)].circuitBreaker.state = "open"
           /\ now < sessions[MapGet(clients, n)].circuitBreaker.nextRetryTime)
          => /\ calls'[c].pc = "thrown"
             /\ calls'[c].err = CircuitOpenError
             /\ calls'[c].issued = 0
             /\ sessions' = sessions
             /\ failedSince' = failedSince]_vars

\* A call was rejected by a breaker that is open and still blocking.
C2_Witness ==
  \E c \in Callers :
    /\ calls[c].pc = "thrown"
    /\ calls[c].err = CircuitOpenError
    /\ calls[c].issued = 0
    /\ sessions[calls[c].sess].circuitBreaker.state = "open"
    /\ now < sessions[calls[c].sess].circuitBreaker.nextRetryTime

\* C3: a callTool on an open breaker at or after nextRetryTime puts the breaker
\* to half-open with failure count 0 before attempt 0 goes to the transport,
\* and the call is attempted, not rejected.
C3_ProbeGoesHalfOpen ==
  [][Invokes =>
       LET c == NextCaller
           n == calls'[c].server
       IN (/\ MapHas(clients, n)
           /\ sessions[MapGet(clients, n)].circuitBreaker.state = "open"
           /\ now >= sessions[MapGet(clients, n)].circuitBreaker.nextRetryTime)
          => /\ calls'[c].pc = "awaiting"
             /\ calls'[c].issued = 1
             /\ calls'[c].gate = [state |-> "half-open", failures |-> 0]
             /\ sessions'[MapGet(clients, n)].circuitBreaker.state = "half-open"
             /\ sessions'[MapGet(clients, n)].circuitBreaker.failures = 0]_vars

\* A probe is in flight: issued at exactly nextRetryTime through a half-open gate.
C3_Witness ==
  \E c \in Callers :
    /\ calls[c].pc = "awaiting"
    /\ calls[c].attempt = 0
    /\ calls[c].gate = [state |-> "half-open", failures |-> 0]
    /\ sessions[calls[c].sess].circuitBreaker.state = "half-open"
    /\ now = sessions[calls[c].sess].circuitBreaker.nextRetryTime

\* C4: when an attempt succeeds, whatever the breaker showed, the breaker is
\* closed with failure count 0 and both timestamps 0 afterwards, and callTool
\* returns the result of that attempt.
C4_SuccessResetsBreaker ==
  [][\A c \in Callers :
       AttemptSucceeded(c) =>
         /\ sessions'[calls[c].sess].circuitBreaker =
              [failures |-> 0, lastFailureTime |-> 0, state |-> "closed", nextRetryTime |-> 0]
         /\ calls'[c].result =
              [tool |-> calls[c].tool, attempt |-> calls[c].attempt, sess |-> calls[c].sess]]_vars

\* A call returned whose attempt came back while the breaker was open (tripped
\* by the other caller while this one was in flight), and the breaker is reset.
C4_Witness ==
  \E c \in Callers :
    /\ calls[c].pc = "returned"
    /\ calls[c].over.state = "open"
    /\ calls[c].over.failures >= 3
    /\ sessions[calls[c].sess].circuitBreaker = ZeroBreaker

\* C5: a callTool that passes the gate hands at most maxRetries + 1 attempts to
\* the transport: exactly that many when they all fail, and none after the
\* first one that succeeds.
C5_AttemptsBounded ==
  \A c \in Callers :
    calls[c].sess # 0 =>
      LET mr == ClaimedMaxRetries(sessions[calls[c].sess].config) IN
      /\ calls[c].issued <= mr + 1
      /\ calls[c].pc = "awaiting" => calls[c].issued = calls[c].attempt + 1
      /\ (calls[c].pc = "thrown" /\ calls[c].err.kind = "transport") =>
           /\ calls[c].issued = mr + 1
           /\ calls[c].err = TransportError(mr)
      /\ calls[c].pc = "returned" => calls[c].issued = calls[c].result.attempt + 1

\* A call to beta (default maxRetries 3) threw after exactly 4 attempts.
C5_Witness ==
  \E c \in Callers :
    /\ calls[c].server = "beta"
    /\ calls[c].pc = "thrown"
    /\ calls[c].err = TransportError(3)
    /\ calls[c].issued = 4

\* C6: the delay slept after failed attempt i is
\* min(retryDelay * backoffMultiplier^i, maxDelay) under the merged retry
\* policy; nothing is slept after the final attempt or after a success.
C6_BackoffDelays ==
  \A c \in Callers :
    calls[c].sess # 0 =>
      LET cfg == sessions[calls[c].sess].config IN
      /\ \A k \in DOMAIN calls[c].delays : calls[c].delays[k] = ClaimedDelay(cfg, k - 1)
      /\ Len(calls[c].delays) <= ClaimedMaxRetries(cfg)
      /\ calls[c].pc = "awaiting" => Len(calls[c].delays) = calls[c].attempt
      /\ calls[c].pc = "sleeping" => Len(calls[c].delays) = calls[c].attempt + 1
      /\ calls[c].pc = "returned" => Len(calls[c].delays) = calls[c].result.attempt
      /\ (calls[c].pc = "thrown" /\ calls[c].err.kind = "transport") =>
           Len(calls[c].delays) = calls[c].err.attempt

\* A call to beta (maxDelay 1500 over the defaults) exhausted its attempts
\* sleeping 1000, 1500 (capped) and 1500, and a call to alpha slept 100, 200.
C6_Witness ==
  /\ \E c \in Callers :
       /\ calls[c].server = "beta" /\ calls[c].pc = "thrown"
       /\ calls[c].delays = <<1000, 1500, 1500>>
  /\ \E c \in Callers :
       /\ calls[c].server = "alpha" /\ calls[c].pc = "thrown"
       /\ calls[c].delays = <<100, 200>>

\* The scenario's calls: the invocations completed so far, none of them made
\* before alpha's session was installed.
ScenarioRun == \A j \in DOMAIN history : history[j].err # UnknownServerError
\* Call j of the scenario had every attempt fail.
Exhausted(j) == history[j].outcome = "thrown" /\ history[j].err.kind = "transport"

\* C7 as stated: of three sequential calls whose attempts all fail, each makes
\* its 3 attempts and the breaker opens only with the third call's last failed
\* attempt; the 4th call, 1 second later, is rejected without an attempt; the
\* 5th, after 61 seconds, goes through half-open, succeeds and closes the breaker.
C7_ScenarioAsStated ==
  ScenarioRun =>
    /\ \A i \in DOMAIN history :
         (i <= 3 /\ \A j \in 1..i : history[j].outcome = "thrown") =>
           /\ history[i].issued = 3
           /\ history[i].cb.state = "open" <=> i = 3
    /\ (Len(history) >= 4 /\ (\A j \in 1..3 : Exhausted(j))
        /\ history[4].startedAt = history[3].at + 1000) =>
           history[4].err = CircuitOpenError /\ history[4].issued = 0
    /\ (Len(history) >= 5 /\ (\A j \in 1..3 : Exhausted(j))
        /\ history[5].startedAt = history[3].at + 61000 /\ history[5].outcome = "returned") =>
           /\ history[5].gate.state = "half-open"
           /\ history[5].cb.state = "closed" /\ history[5].cb.failures = 0

\* C7 as amended: the first call whose attempts all fail makes its 3 attempts
\* and its third failure opens the breaker (nextRetryTime = that time + 60000);
\* a call issued 1 second later is rejected with the circuit-open error and no
\* attempt, leaving the breaker as it is; a call issued 61 seconds after the
\* trip goes through half-open with count 0, and when it succeeds leaves
\* failure count 0 and state closed.
C7_ScenarioAmended ==
  (ScenarioRun /\ Len(history) >= 1 /\ Exhausted(1)) =>
    /\ history[1].issued = 3
    /\ history[1].err = TransportError(2)
    /\ history[1].cb.state = "open"
    /\ history[1].cb.failures = 3
    /\ history[1].cb.nextRetryTime = history[1].at + 60000
    /\ (Len(history) >= 2 /\ history[2].startedAt = history[1].at + 1000) =>
         /\ history[2].outcome = "thrown"
         /\ history[2].err = CircuitOpenError
         /\ history[2].issued = 0
         /\ history[2].cb = history[1].cb
    /\ (Len(history) >= 3 /\ history[2].err = CircuitOpenError
        /\ history[3].startedAt = history[1].at + 61000) =>
         /\ history[3].err # CircuitOpenError
         /\ history[3].issued >= 1
         /\ history[3].gate = [state |-> "half-open", failures |-> 0]
         /\ history[3].outcome = "returned" =>
              history[3].cb = [failures |-> 0, lastFailureTime |-> 0,
                               state |-> "closed", nextRetryTime |-> 0]

\* The amended scenario has run: trip by the first call, rejection 1 second
\* later, recovery by a call 61 seconds after the trip.
C7_Witness ==
  /\ ScenarioRun /\ Len(history) = 3
  /\ Exhausted(1) /\ history[1].at = 300
  /\ history[2].startedAt = 1300 /\ history[2].err = CircuitOpenError
  /\ history[3].startedAt = 61300 /\ history[3].outcome = "returned"
  /\ history[3].issued = 1
  /\ sessions[1].circuitBreaker = ZeroBreaker

\* A configuration entry whose transport can be constructed.
ClaimedValid(cfg) ==
  \/ cfg.type = "stdio" /\ cfg.command
  \/ cfg.type = "sse" /\ cfg.url = "good"
\* The servers initializeClients can connect: enabled, valid, endpoint answering.
Connectable ==
  {config[i].name : i \in {j \in DOMAIN config :
     ~config[j].disabled /\ ClaimedValid(config[j]) /\ endpoint[config[j].name] = "ok"}}

\* C8: initializeClients never raises; a disabled or invalid entry is never
\* handed to connect; no session is installed for a server that is disabled,
\* invalid or fails to connect; and when initializeClients has completed the
\* store and getServerStatus hold exactly the connectable servers (as long as
\* no disconnectAll has been started).
C8_InitIsolatesFailures ==
  /\ init.pc # "raised"
  /\ init.pc \in {"connect", "listTools"} =>
       ~config[init.idx].disabled /\ ClaimedValid(config[init.idx])
  /\ \A id \in DOMAIN sessions : sessions[id].name \in Connectable
  /\ scope.teardowns = LifecycleTeardowns =>
       /\ MapKeys(clients) \subseteq Connectable
       /\ init.pc = "done" =>
            /\ MapKeys(clients) = Connectable
            /\ DOMAIN getServerStatus(clients, sessions) = Connectable
            /\ Len(sessions) = Cardinality(Connectable)

\* initializeClients completed over an invalid first entry: only beta, listed
\* after it, is in the store.
C8_Witness ==
  /\ init.pc = "done"
  /\ scope.teardowns = LifecycleTeardowns
  /\ ~config[1].disabled /\ ~ClaimedValid(config[1])
  /\ DOMAIN getServerStatus(clients, sessions) = {"beta"}

\* C9: every enabled, valid server whose endpoint answers eventually gets a
\* session, whatever the other server's connect does.
C9_StalledConnectDoesNotBlock ==
  \A i \in 1..2 :
    (~config[i].disabled /\ ClaimedValid(config[i]) /\ endpoint[config[i].name] = "ok")
      => <>MapHas(clients, config[i].name)

\* C10: callTool for a name with no session throws the unknown-server error,
\* hands nothing to the transport and creates no session or breaker entry; the
\* store and every session stay as they are.
C10_UnknownServerLeavesNoTrace ==
  [][Invokes =>
       LET c == NextCaller
           n == calls'[c].server
       IN ~MapHas(clients, n) =>
            /\ calls'[c].pc = "thrown"
            /\ calls'[c].err = UnknownServerError
            /\ calls'[c].issued = 0
            /\ clients' = clients
            /\ sessions' = sessions
            /\ n \notin DOMAIN getServerStatus(clients', sessions')
            /\ n \notin DOMAIN getCircuitBreakerStats(clients', sessions')]_vars

\* A call to a configured, connectable server found no session in the store
\* (not installed yet, or cleared by the disconnectAll that has run) and got
\* the unknown-server error; the store is empty after disconnectAll.
C10_Witness ==
  \E c \in Callers :
    /\ calls[c].pc = "thrown"
    /\ calls[c].err = UnknownServerError
    /\ calls[c].issued = 0
    /\ calls[c].server \in Connectable
    /\ init.pc = "done"
    /\ scope.teardowns < LifecycleTeardowns /\ teardown.pc = "idle"
    /\ clients = <<>>

\* This step is a disconnectAll invocation.
Disconnects == scope'.teardowns # scope.teardowns
\* This step completes a disconnectAll invocation.
DisconnectCompletes == teardown'.pc = "idle" /\ (teardown.pc = "closing" \/ Disconnects)
\* Nothing is reported by any of the three status operations.
ReportsNothing(m, ss) ==
  /\ DOMAIN getServerStatus(m, ss) = {}
  /\ DOMAIN getCircuitBreakerStats(m, ss) = {}
  /\ getAllAvailableTools(m, ss) = <<>>

\* C11: disconnectAll never raises; when it completes the store is empty and
\* getServerStatus, getCircuitBreakerStats and getAllAvailableTools report
\* nothing, every session that was in the store has had its transport's
\* close() called, whether or not a close raised; a disconnectAll on the empty
\* store completes at once and changes nothing.
C11_DisconnectAllEmptiesStore ==
  [][/\ teardown'.pc # "raised"
     /\ DisconnectCompletes =>
          /\ clients' = <<>>
          /\ ReportsNothing(clients', sessions')
          /\ \A i \in DOMAIN clients : sessions'[clients[i][2]].transport # "open"
     /\ (Disconnects /\ clients = <<>>) =>
          /\ teardown'.pc = "idle"
          /\ clients' = clients
          /\ sessions' = sessions]_vars

\* One disconnectAll has run over both sessions: the close of one of them
\* raised, the other one is closed, and the store is empty.
C11_Witness ==
  /\ init.pc = "done"
  /\ teardown.pc = "idle"
  /\ scope.teardowns = LifecycleTeardowns - 1
  /\ clients = <<>>
  /\ Len(sessions) = 2
  /\ sessions[1].transport = "unclosed"
  /\ sessions[2].transport = "closed"
  /\ ReportsNothing(clients, sessions)

\* Caller c's invocation is in flight on a session whose transport has been closed.
InFlightOnClosed(c) == Busy(c) /\ sessions[calls[c].sess].transport # "open"

C13_TimeoutEndsAttempt ==
  \A c \in Callers :
    (calls[c].pc = "awaiting" /\ sessions[calls[c].sess].config.timeout > 0)
      ~> (calls[c].pc \in {"returned", "thrown"})

\* This step is a reconnectServer invocation.
Reconnects == reconnect' # reconnect /\ reconnect.pc \in {"idle", "returned"}
\* This step is the one in which a reconnectServer invocation returns.
ReconnectReturns == reconnect'.pc = "returned" /\ reconnect' # reconnect
\* What the server lists at present.
ClaimedTools(n) ==
  IF endpoint[n] = "grown"
  THEN Append(BaseTools(n), [name |-> "new", description |-> "d4", inputSchema |-> "s4"])
  ELSE IF endpoint[n] = "bare" THEN <<>> ELSE BaseTools(n)

\* C14: when reconnectServer(name) returns true, the store holds for name a
\* session created by this reconnect, connected, with the tools the server
\* lists now and a breaker closed / 0 / 0 / 0, whatever the breaker of the
\* previous session shows; the previous session's transport is closed.
C14_ReconnectInstallsFreshSession ==
  [][(ReconnectReturns /\ reconnect'.ret) =>
       LET n == reconnect'.name IN
       /\ MapHas(clients', n)
       /\ MapGet(clients', n) \notin DOMAIN sessions
       /\ LET new == sessions'[MapGet(clients', n)] IN
          /\ new.connected
          /\ new.transport = "open"
          /\ new.tools = ClaimedTools(n)
          /\ new.circuitBreaker =
               [failures |-> 0, lastFailureTime |-> 0, state |-> "closed", nextRetryTime |-> 0]
       /\ reconnect'.old \in DOMAIN sessions
       /\ sessions'[reconnect'.old].transport = "closed"]_vars

\* reconnectServer("alpha") returned true where the previous session's breaker
\* was open after three failures and the server has grown a fourth tool: the
\* store holds a new session with four tools and a zeroed breaker.
C14_Witness ==
  /\ reconnect.pc = "returned" /\ reconnect.ret /\ reconnect.name = "alpha"
  /\ sessions[reconnect.old].circuitBreaker.state = "open"
  /\ sessions[reconnect.old].circuitBreaker.failures = 3
  /\ sessions[reconnect.old].transport = "closed"
  /\ MapGet(clients, "alpha") # reconnect.old
  /\ Len(sessions[MapGet(clients, "alpha")].tools) = 4
  /\ sessions[MapGet(clients, "alpha")].circuitBreaker = ZeroBreaker

\* C15: reconnectServer(name) for a configured name that initializeClients has
\* left without a session, and whose server now answers, skips the disconnect
\* and goes on to connect with the stored config.
C15_ReconnectConnectsMissing ==
  [][\A n \in ConfigNames(config) :
       (/\ Reconnects /\ reconnect'.name = n
        /\ init.pc = "done" /\ ~MapHas(clients, n) /\ endpoint[n] = "ok") =>
          /\ reconnect'.pc = "connect"
          /\ sessions' = sessions]_vars

\* C16: when a reconnectServer invocation that has called close() on the old
\* session has returned, that session is no longer in the store, and
\* getServerStatus reports no session as connected whose transport was closed.
C16_FailedReconnectRemovesOld ==
  (reconnect.pc = "returned" /\ reconnect.old # 0) =>
    /\ \A i \in DOMAIN clients : clients[i][2] # reconnect.old
    /\ \A n \in MapKeys(clients) :
         getServerStatus(clients, sessions)[n].connected =>
           sessions[MapGet(clients, n)].transport = "open"

\* The sessions of the current manager's store.
Stored == {clients[i][2] : i \in DOMAIN clients}

\* C17: once a reload has completed, every session that is not the new
\* manager's has had its transport closed, the replaced manager holds no
\* session, and the store holds sessions only for servers of the configuration
\* read by the reload; whatever the replaced manager's initializeClients was
\* doing when the reload came.
C17_ReloadLeavesOnlyNewSessions ==
  (Len(retired) > 0 /\ reload.pc = "idle") =>
    /\ \A id \in DOMAIN sessions : id \notin Stored => sessions[id].transport # "open"
    /\ \A k \in DOMAIN retired : retired[k].clients = <<>>
    /\ MapKeys(clients) \subseteq ConfigNames(config)

\* The number of tools of the connected sessions stored under the names in ns.
RECURSIVE ClaimedToolCount(_)
ClaimedToolCount(ns) ==
  IF ns = {} THEN 0
  ELSE LET n == CHOOSE x \in ns : TRUE
           client == sessions[MapGet(clients, n)]
       IN (IF client.connected THEN Len(client.tools) ELSE 0) + ClaimedToolCount(ns \ {n})
\* The descriptors of list ds that carry server name n.
TaggedWith(ds, n) == {k \in DOMAIN ds : ds[k].serverName = n}

\* C18: getAllAvailableTools returns one descriptor per discovered tool of each
\* connected session of the store, tagged with that session's server name and
\* carrying the tool's name, description and schema: as many descriptors as
\* those sessions have tools; a session without tools and a name without a
\* session contribute nothing.
C18_ToolsAggregated ==
  LET ds == getAllAvailableTools(clients, sessions) IN
  /\ Len(ds) = ClaimedToolCount(MapKeys(clients))
  /\ \A k \in DOMAIN ds : ds[k].serverName \in MapKeys(clients)
  /\ \A n \in MapKeys(clients) :
       LET client == sessions[MapGet(clients, n)] IN
       /\ Cardinality(TaggedWith(ds, n)) = IF client.connected THEN Len(client.tools) ELSE 0
       /\ client.connected =>
            \A j \in DOMAIN client.tools :
              \E k \in TaggedWith(ds, n) :
                /\ ds[k].toolName = client.tools[j].name
                /\ ds[k].description = client.tools[j].description
                /\ ds[k].inputSchema = client.tools[j].inputSchema

\* alpha (3 tools) and beta (2 tools) are connected: 5 descriptors, 3 tagged
\* alpha and 2 tagged beta.
C18_Witness ==
  LET ds == getAllAvailableTools(clients, sessions) IN
  /\ MapKeys(clients) = {"alpha", "beta"}
  /\ Len(ds) = 5
  /\ Cardinality(TaggedWith(ds, "alpha")) = 3
  /\ Cardinality(TaggedWith(ds, "beta")) = 2
  /\ [k \in DOMAIN ds |-> ds[k].toolName] = <<"a1", "a2", "a3", "b1", "b2">>

\* This step is one of the status operations being invoked and returning.
StatusReturns == scope'.ops # scope.ops /\ reply'.op \in StatusOperations

\* C19: getServerStatus, getAllAvailableTools and getCircuitBreakerStats change
\* nothing: the store and every session (breaker, connected flag, tools,
\* transport) are the same before and after; getCircuitBreakerStats reports
\* each breaker as it stands, an open one whose nextRetryTime has passed as
\* open, and does not move it to half-open.
C19_StatusReadsOnly ==
  [][StatusReturns =>
       /\ clients' = clients
       /\ sessions' = sessions
       /\ <<config, init, calls, now, teardown, failedSince>>' =
            <<config, init, calls, now, teardown, failedSince>>
       /\ reply'.op = "getCircuitBreakerStats" =>
            /\ DOMAIN reply'.value = MapKeys(clients)
            /\ \A n \in MapKeys(clients) :
                 LET cb == sessions[MapGet(clients, n)].circuitBreaker IN
                 /\ reply'.value[n] =
                      [state |-> cb.state, failures |-> cb.failures,
                       lastFailureTime |-> cb.lastFailureTime, nextRetryTime |-> cb.nextRetryTime]
                 /\ (cb.state = "open" /\ now >= cb.nextRetryTime) =>
                      /\ reply'.value[n].state = "open"
                      /\ sessions'[MapGet(clients, n)].circuitBreaker.state = "open"]_vars

\* getCircuitBreakerStats has returned alpha's breaker as open at a time when
\* its nextRetryTime has passed, and the breaker is still open.
C19_Witness ==
  /\ reply.op = "getCircuitBreakerStats"
  /\ MapHas(clients, "alpha")
  /\ "alpha" \in DOMAIN reply.value
  /\ reply.value["alpha"].state = "open"
  /\ reply.value["alpha"].failures = 3
  /\ now >= reply.value["alpha"].nextRetryTime
  /\ sessions[MapGet(clients, "alpha")].circuitBreaker.state = "open"

\* This step is a resetCircuitBreaker invocation.
Resets == scope'.ops # scope.ops /\ reply'.op = "resetCircuitBreaker"

\* C20: resetCircuitBreaker(name) on a name with a session returns true and
\* leaves that session's breaker closed / 0 / 0 / 0, its transport, connected
\* flag, tools and config as they were, every other session and the store
\* unchanged; on a name without a session it returns false and changes nothing.
C20_ResetOnlyTouchesBreaker ==
  [][Resets =>
       LET n == reply'.arg IN
       /\ clients' = clients
       /\ DOMAIN sessions' = DOMAIN sessions
       /\ IF MapHas(clients, n)
          THEN LET id == MapGet(clients, n) IN
               /\ reply'.value = TRUE
               /\ sessions'[id] =
                    [sessions[id] EXCEPT !.circuitBreaker =
                       [failures |-> 0, lastFailureTime |-> 0, state |-> "closed",
                        nextRetryTime |-> 0]]
               /\ \A other \in DOMAIN sessions : other # id => sessions'[other] = sessions[other]
          ELSE /\ reply'.value = FALSE
               /\ sessions' = sessions]_vars

\* resetCircuitBreaker("alpha") has returned true after a call to alpha had
\* failed three times and opened the breaker: the breaker is zeroed, the
\* session is the same one, its transport open and its three tools in place.
C20_Witness ==
  /\ reply = [op |-> "resetCircuitBreaker", arg |-> "alpha", value |-> TRUE]
  /\ calls[1].server = "alpha" /\ calls[1].pc = "thrown" /\ calls[1].err = TransportError(2)
  /\ MapHas(clients, "alpha")
  /\ MapGet(clients, "alpha") = calls[1].sess
  /\ sessions[calls[1].sess].circuitBreaker = ZeroBreaker
  /\ sessions[calls[1].sess].transport = "open"
  /\ sessions[calls[1].sess].connected
  /\ Len(sessions[calls[1].sess].tools) = 3

\* C21: a callTool whose attempts have all failed throws the error of its final
\* attempt (number maxRetries): not an earlier attempt's, not the circuit-open
\* error even when the breaker opened before that attempt came back, and
\* without a result.
C21_LastErrorRaised ==
  \A c \in Callers :
    (calls[c].pc = "thrown" /\ calls[c].issued >= 1) =>
      LET mr == ClaimedMaxRetries(sessions[calls[c].sess].config) IN
      /\ calls[c].err = [kind |-> "transport", attempt |-> calls[c].issued - 1]
      /\ calls[c].err.attempt = mr
      /\ calls[c].err = calls[c].lastError
      /\ calls[c].err # CircuitOpenError
      /\ calls[c].result = NoResult

\* Two overlapping calls to alpha have both thrown the error of their attempt
\* 2, one of them after the breaker had been opened by the failures of both
\* (six recorded, threshold 3).
C21_Witness ==
  /\ \A c \in Callers :
       /\ calls[c].pc = "thrown"
       /\ calls[c].server = "alpha"
       /\ calls[c].err = [kind |-> "transport", attempt |-> 2]
       /\ calls[c].gate.state = "closed"
  /\ calls[1].sess = calls[2].sess
  /\ sessions[calls[1].sess].circuitBreaker.state = "open"
  /\ sessions[calls[1].sess].circuitBreaker.failures = 6

\* C22: a step of a callTool on one server (gate rejection, half-open
\* transition, failed attempt, trip, success, backoff) runs on that server's
\* own session and leaves the breaker of every other server's session, and its
\* count of recorded failures, as they were; a call is rejected at the gate only
\* when the breaker of its own server is open and still blocking.
C22_ServersIndependent ==
  [][\A c \in Callers :
       calls'[c] # calls[c] =>
         LET n == calls'[c].server IN
         /\ calls'[c].sess # 0 => sessions[calls'[c].sess].name = n
         /\ \A id \in DOMAIN sessions :
              sessions[id].name # n =>
                /\ sessions'[id] = sessions[id]
                /\ failedSince'[id] = failedSince[id]
         /\ (Invokes /\ calls'[c].err = CircuitOpenError) =>
              /\ sessions[calls'[c].sess].circuitBreaker.state = "open"
              /\ now < sessions[calls'[c].sess].circuitBreaker.nextRetryTime]_vars

\* A call to beta was let through its gate and answered while alpha's breaker,
\* opened by this caller's previous call, was open and still blocking.
C22_Witness ==
  \E a, b \in DOMAIN sessions :
    /\ sessions[a].name = "alpha" /\ sessions[b].name = "beta"
    /\ calls[2].pc = "idle"
    /\ calls[1].server = "beta" /\ calls[1].sess = b
    /\ calls[1].pc = "returned" /\ calls[1].gate = [state |-> "closed", failures |-> 0]
    /\ sessions[a].circuitBreaker.state = "open" /\ sessions[a].circuitBreaker.failures = 3
    /\ now < sessions[a].circuitBreaker.nextRetryTime
    /\ sessions[b].circuitBreaker = ZeroBreaker

\* C23: whatever the interleaving of the callers of one server with each other
\* and with resetCircuitBreaker and reconnectServer, the failure count of every
\* session's breaker is the number of failed attempts recorded on it since its
\* last reset (a success, resetCircuitBreaker, or the open -> half-open
\* transition), and the breaker is open exactly while that count is at or
\* above failureThreshold.
C23_NoLostFailure ==
  \A id \in DOMAIN sessions :
    LET cb == sessions[id].circuitBreaker IN
    /\ cb.failures = failedSince[id]
    /\ cb.state = "open" <=> failedSince[id] >= ClaimedThreshold(sessions[id].config)

\* Two overlapping calls to alpha have failed four attempts between them (one
\* call all three of its own, the other its first), a resetCircuitBreaker came
\* after the first of the four: the count is 3 and the breaker is open.
C23_Witness ==
  /\ calls[1].sess = calls[2].sess /\ calls[1].sess # 0
  /\ \E c, d \in Callers :
       /\ calls[c].pc = "thrown" /\ calls[c].err = TransportError(2)
       /\ calls[d].pc = "sleeping" /\ calls[d].attempt = 0
  /\ reply = [op |-> "resetCircuitBreaker", arg |-> "alpha", value |-> TRUE]
  /\ failedSince[calls[1].sess] = 3
  /\ sessions[calls[1].sess].circuitBreaker.failures = 3
  /\ sessions[calls[1].sess].circuitBreaker.state = "open"

\* The sessions of server n whose transport is established and has not been
\* closed.
Live(n) == {id \in DOMAIN sessions : sessions[id].name = n /\ sessions[id].transport = "open"}

\* C24: for each server name at most one session is live (its transport
\* established and not closed), and it is the session the store holds for the
\* name.
C24_OneLiveSessionPerName ==
  \A n \in ConfigNames(config) :
    /\ Cardinality(Live(n)) <= 1
    /\ \A id \in Live(n) : MapHas(clients, n) /\ MapGet(clients, n) = id

\* The invocations of the paywalled tools made for the device of invocation k,
\* up to and including k.
Ordinal(k) == Cardinality({j \in 1..k : paywalled[j].deviceId = paywalled[k].deviceId})

\* C25: with the free-call allowance of 3, a device with no prior calls is
\* served its first 3 invocations of the paywalled tools, and payment_required
\* is answered from its 4th invocation on.
C25_FirstThreeServed ==
  \A k \in DOMAIN paywalled :
    /\ Ordinal(k) <= 3 => paywalled[k].outcome # "payment_required"
    /\ Ordinal(k) > 3 => paywalled[k].outcome = "payment_required"

\* C26: in every state reached by callTool, resetCircuitBreaker and
\* reconnectServer in any order and interleaving, an open breaker's
\* nextRetryTime is later than its lastFailureTime, also after failures
\* recorded by a retry loop that was in flight when the breaker opened.
C26_OpenRetryAfterFailure ==
  \A id \in DOMAIN sessions :
    LET cb == sessions[id].circuitBreaker IN
    cb.state = "open" => cb.nextRetryTime > cb.lastFailureTime

\* A breaker that opened on its third failure has had a fourth recorded, a full
\* resetTimeout later, by a call that was already in flight: the breaker is
\* open and nextRetryTime has moved with that failure.
C26_Witness ==
  \E id \in DOMAIN sessions :
    LET cb == sessions[id].circuitBreaker IN
    /\ cb.state = "open"
    /\ cb.failures = 4
    /\ cb.lastFailureTime >= 60000
    /\ cb.nextRetryTime = cb.lastFailureTime + 60000
    /\ \E c \in Callers : calls[c].sess = id /\ calls[c].pc = "sleeping" /\ calls[c].attempt = 0

\* C27: a closed breaker's failure count is below failureThreshold (0
\* included) and is the number of failed attempts recorded on it since its
\* last reset.
C27_ClosedBelowThreshold ==
  \A id \in DOMAIN sessions :
    LET cb == sessions[id].circuitBreaker IN
    cb.state = "closed" =>
      /\ cb.failures >= 0
      /\ cb.failures < ClaimedThreshold(sessions[id].config)
      /\ cb.failures = failedSince[id]

\* alpha's breaker is closed with failure count 2 although three attempts have
\* failed on it: resetCircuitBreaker came after the first of them.
C27_Witness ==
  /\ reply = [op |-> "resetCircuitBreaker", arg |-> "alpha", value |-> TRUE]
  /\ \E c \in Callers :
       /\ calls[c].pc = "thrown" /\ calls[c].err = TransportError(2)
       /\ sessions[calls[c].sess].circuitBreaker.state = "closed"
       /\ sessions[calls[c].sess].circuitBreaker.failures = 2
       /\ failedSince[calls[c].sess] = 2
       /\ \A d \in Callers : d # c => calls[d].pc = "idle"

\* C28: the gate is evaluated once per callTool, before attempt 0 and never
\* between attempts.  A step of a call that is in its retry loop never throws
\* the circuit-open error and never moves the breaker to half-open; whatever the
\* breaker shows, a failed attempt that is not the last is followed by its
\* sleep and the sleep by the next attempt.  A callTool invoked while the
\* breaker is open and before nextRetryTime is rejected with no attempt made.
C28_GateOncePerCall ==
  [][/\ \A c \in Callers :
          (Busy(c) /\ calls'[c] # calls[c]) =>
            LET id == calls[c].sess
                mr == ClaimedMaxRetries(sessions[id].config)
            IN
            /\ calls'[c].err # CircuitOpenError
            /\ sessions'[id].circuitBreaker.state = "half-open"
                 => sessions[id].circuitBreaker.state = "half-open"
            /\ (AttemptFailed(c) /\ calls[c].attempt < mr) => calls'[c].pc = "sleeping"
            /\ calls[c].pc = "sleeping" =>
                 /\ calls'[c].pc = "awaiting"
                 /\ calls'[c].attempt = calls[c].attempt + 1
                 /\ calls'[c].issued = calls[c].issued + 1
     /\ Invokes =>
          LET c == NextCaller
              n == calls'[c].server
          IN (/\ MapHas(clients, n)
              /\ sessions[MapGet(clients, n)].circuitBreaker.state = "open"
              /\ now < sessions[MapGet(clients, n)].circuitBreaker.nextRetryTime)
             => calls'[c].err = CircuitOpenError /\ calls'[c].issued = 0]_vars

\* A call that passed the gate of the closed breaker is in its attempt 2,
\* issued when its 200 ms sleep ended, although the breaker was open by its own
\* previous failure (the fifth recorded); a call invoked after the trip was
\* rejected at the gate.
C28_Witness ==
  \E c, d \in Callers :
    LET cb == sessions[calls[c].sess].circuitBreaker IN
    /\ calls[c].pc = "awaiting" /\ calls[c].attempt = 2
    /\ calls[c].gate.state = "closed"
    /\ cb.state = "open" /\ cb.failures = 5
    /\ now = cb.lastFailureTime + 200
    /\ calls[d].pc = "thrown" /\ calls[d].err = CircuitOpenError /\ calls[d].issued = 0
    /\ calls[d].sess = calls[c].sess

\* C29: failures are counted per attempt.  Every failed attempt of a retry loop
\* raises the failure count of its session by exactly one and sets
\* lastFailureTime to the time of the failure, opening the breaker when the
\* count is then at or above failureThreshold and leaving its state alone
\* otherwise; the last failed attempt of the only call made so far leaves the
\* count at maxRetries + 1.
C29_CountedPerAttempt ==
  [][\A c \in Callers :
       AttemptFailed(c) =>
         LET id == calls[c].sess
             cfg == sessions[id].config
             before == sessions[id].circuitBreaker
             after == sessions'[id].circuitBreaker
         IN
         /\ after.failures = before.failures + 1
         /\ after.lastFailureTime = now
         /\ after.state = IF after.failures >= ClaimedThreshold(cfg) THEN "open" ELSE before.state
         /\ (calls'[c].pc = "thrown" /\ scope.calls = MaxCalls - 1) =>
              after.failures = ClaimedMaxRetries(cfg) + 1]_vars

\* The only call made so far, to beta under the default policy, has thrown
\* after its attempts all failed: the count stands at 4 of a threshold of 5
\* and the breaker is closed.
C29_Witness ==
  /\ scope.calls = MaxCalls - 1
  /\ calls[1].server = "beta" /\ calls[1].pc = "thrown" /\ calls[1].err = TransportError(3)
  /\ sessions[calls[1].sess].circuitBreaker.failures = 4
  /\ sessions[calls[1].sess].circuitBreaker.state = "closed"
  /\ sessions[calls[1].sess].circuitBreaker.lastFailureTime = now
  /\ ClaimedThreshold(sessions[calls[1].sess].config) = 5

\* C30: a breaker becomes half-open only from open, only in the gate check of
\* a callTool on its session, and only at or after nextRetryTime, its failure
\* count going to 0 in the same step; a callTool that finds the breaker
\* half-open (another invocation has made the transition and is still in
\* flight) passes the gate and leaves the breaker exactly as it found it.
C30_OneProbeFlips ==
  [][/\ \A id \in DOMAIN sessions :
          (sessions'[id].circuitBreaker.state = "half-open"
             /\ sessions[id].circuitBreaker.state # "half-open") =>
            /\ sessions[id].circuitBreaker.state = "open"
            /\ now >= sessions[id].circuitBreaker.nextRetryTime
            /\ sessions'[id].circuitBreaker.failures = 0
            /\ Invokes
            /\ calls'[NextCaller].sess = id
            /\ calls'[NextCaller].pc = "awaiting"
            /\ calls'[NextCaller].gate = [state |-> "half-open", failures |-> 0]
     /\ Invokes =>
          LET c == NextCaller
              n == calls'[c].server
          IN (MapHas(clients, n)
                /\ sessions[MapGet(clients, n)].circuitBreaker.state = "half-open") =>
               /\ sessions' = sessions
               /\ failedSince' = failedSince
               /\ calls'[c].pc = "awaiting"
               /\ calls'[c].gate = GateSeen(sessions[MapGet(clients, n)].circuitBreaker)]_vars

\* Two invocations made after nextRetryTime of the open breaker are in flight
\* together: the first made the transition, the second found the breaker
\* half-open with the count at 0 and passed.
C30_Witness ==
  /\ calls[1].sess = calls[2].sess /\ calls[1].sess # 0
  /\ \A c \in Callers :
       /\ calls[c].pc = "awaiting" /\ calls[c].attempt = 0
       /\ calls[c].gate = [state |-> "half-open", failures |-> 0]
  /\ sessions[calls[1].sess].circuitBreaker.state = "half-open"
  /\ sessions[calls[1].sess].circuitBreaker.failures = 0
  /\ now >= sessions[calls[1].sess].circuitBreaker.nextRetryTime
  /\ sessions[calls[1].sess].circuitBreaker.nextRetryTime > 0

\* C31: for every device id and free-call limit, needsPayment(device) is
\* true exactly when the incrementCalls(device) since the last
\* resetCalls(device) number at least freeCalls, getRemainingFreeCalls(device)
\* is max(0, freeCalls - that number), and the count of a device is the number
\* of its own increments only.
C31_PaymentExactlyAtLimit ==
  \A d \in Devices :
    /\ needsPayment(counterFile, d) <=> (incrementedSince[d] >= freeCalls)
    /\ getRemainingFreeCalls(counterFile, d) = Num(Max(0, freeCalls - incrementedSince[d]))

C37_CompletedMeansAllSteps ==
  projectStatus = "COMPLETED" =>
    /\ \A i \in DOMAIN workflowSteps : workflowSteps[i] = "COMPLETED"
    /\ getProjectProgress(workflowSteps) = 100

\* C33: in every reachable state of every breaker, state = open if and only
\* if the failure count is at or above failureThreshold, so a half-open breaker
\* has a count below it; and a failure recorded on a half-open breaker re-opens
\* it only when the count reaches failureThreshold, the breaker staying
\* half-open otherwise.
C33_OpenIffAtThreshold ==
  [][\A id \in DOMAIN sessions' :
       LET after == sessions'[id].circuitBreaker
           threshold == ClaimedThreshold(sessions'[id].config)
       IN
       /\ after.state = "open" <=> after.failures >= threshold
       /\ after.state = "half-open" => after.failures < threshold
       /\ (/\ id \in DOMAIN sessions
           /\ sessions[id].circuitBreaker.state = "half-open"
           /\ after.failures = sessions[id].circuitBreaker.failures + 1) =>
            after.state = IF after.failures >= threshold THEN "open" ELSE "half-open"]_vars

\* A probe failed on the half-open breaker and left it half-open with count 1,
\* and a call made after that passed the gate and is in flight.
C33_Witness ==
  \E id \in DOMAIN sessions, c \in Callers :
    /\ sessions[id].circuitBreaker.state = "half-open"
    /\ sessions[id].circuitBreaker.failures >= 1
    /\ calls[c].sess = id
    /\ calls[c].pc = "awaiting"
    /\ calls[c].attempt = 0
    /\ calls[c].gate = [state |-> "half-open", failures |-> 1]

\* C34: when every attempt handed to the transport eventually returns, every
\* callTool invocation in progress eventually returns a result or raises an
\* error, having made at most maxRetries + 1 attempts and slept at most
\* maxRetries times, whatever other callTool invocations, resetCircuitBreaker,
\* reconnectServer and disconnectAll do in between.
C34_CallToolTerminates ==
  \A c \in Callers :
    /\ [](calls[c].sess # 0 =>
            /\ calls[c].issued <= ClaimedMaxRetries(sessions[calls[c].sess].config) + 1
            /\ Len(calls[c].delays) <= ClaimedMaxRetries(sessions[calls[c].sess].config))
    /\ (calls[c].pc \in {"awaiting", "sleeping"}) ~> (calls[c].pc \in {"returned", "thrown"})

\* A call to gamma raised its last error after two attempts and one sleep;
\* while it was retrying its session was taken out of the store and the
\* transport closed, and the breaker it was counting on was reset.
C34_Witness ==
  \E c \in Callers :
    /\ calls[c].pc = "thrown"
    /\ calls[c].err.kind = "transport"
    /\ calls[c].issued = 2
    /\ Len(calls[c].delays) = 1
    /\ sessions[calls[c].sess].transport # "open"
    /\ sessions[calls[c].sess].circuitBreaker.failures < 2
    /\ teardown.pc = "idle" /\ scope.teardowns < TerminationOperations
    /\ scope.ops < TerminationOperations
    /\ clients = <<>>

\* C35: a breaker belongs to one session.  A step of a callTool invocation that
\* is already in progress leaves the invocation on the session it started on
\* and changes no other session's breaker; so after a successful
\* reconnectServer(name) the breaker of the new session changes only through
\* invocations that started on the new session or through resetCircuitBreaker,
\* and stays closed / 0 until then.
C35_StaleCallsLeaveNewBreaker ==
  [][/\ \A c \in Callers :
          Busy(c) /\ calls'[c] # calls[c] =>
            /\ calls'[c].sess = calls[c].sess
            /\ \A id \in DOMAIN sessions :
                 id # calls[c].sess =>
                   sessions'[id].circuitBreaker = sessions[id].circuitBreaker
     /\ \A id \in DOMAIN sessions :
          sessions'[id].circuitBreaker # sessions[id].circuitBreaker =>
            \/ \E c \in Callers : calls'[c] # calls[c] /\ calls'[c].sess = id
            \/ scope'.ops < scope.ops]_vars

\* reconnectServer returned true and its session is in the store with the
\* breaker closed / 0 / 0 / 0, while a call that started on the previous
\* session has failed all its attempts there and tripped that session's
\* breaker, and a call started after the reconnect is in flight on the new one.
C35_Witness ==
  \E c, d \in Callers :
    /\ reconnect.pc = "returned" /\ reconnect.ret
    /\ MapHas(clients, "alpha")
    /\ calls[c].sess # 0 /\ calls[c].sess # MapGet(clients, "alpha")
    /\ calls[c].pc = "thrown" /\ calls[c].err.kind = "transport"
    /\ sessions[calls[c].sess].circuitBreaker.state = "open"
    /\ sessions[calls[c].sess].circuitBreaker.failures = 3
    /\ sessions[calls[c].sess].transport # "open"
    /\ sessions[MapGet(clients, "alpha")].circuitBreaker = ZeroBreaker
    /\ calls[d].sess = MapGet(clients, "alpha")
    /\ calls[d].pc = "awaiting"

\* No initializeClients, reconnectServer or disconnectAll invocation is in
\* progress.
Settled ==
  /\ init.pc \in {"new", "done"}
  /\ reconnect.pc \in {"idle", "returned"}
  /\ teardown.pc = "idle"

\* C36: after any sequence of initializeClients, reconnectServer and
\* disconnectAll operations, every transport that was opened and has not been
\* closed belongs to a session in the store: none is left behind by a connect
\* whose tool discovery failed, and none by a session that was overwritten or
\* cleared.
C36_OpenTransportsAreOwned ==
  Settled =>
    /\ abandoned = <<>>
    /\ \A id \in DOMAIN sessions :
         sessions[id].transport = "open" =>
           \E n \in MapKeys(clients) : MapGet(clients, n) = id

\* C38: every session present in the store has connected = true, whatever
\* operations ran before (a failed reconnect and a closed transport included);
\* so no callTool invocation raises the not-connected error: a call to a name
\* the store lacks raises the unknown-server error, and a call to a name it
\* holds goes on to the breaker gate.
C38_StoredSessionsConnected ==
  /\ \A n \in MapKeys(clients) : sessions[MapGet(clients, n)].connected
  /\ \A c \in Callers :
       /\ calls[c].err.kind # "not-connected"
       /\ (calls[c].pc = "thrown" /\ calls[c].sess = 0) => calls[c].err.kind = "unknown-server"
       /\ calls[c].sess # 0 => calls[c].gate.state # "none" \/ calls[c].err.kind = "circuit-open"

\* reconnectServer closed alpha's transport and failed, the session stayed in
\* the store with connected = true, and a callTool on that session went past
\* the connected check and the gate and threw the transport's error.
C38_Witness ==
  \E c \in Callers :
    /\ reconnect.pc = "returned" /\ ~reconnect.ret /\ reconnect.name = "alpha"
    /\ MapHas(clients, "alpha")
    /\ sessions[MapGet(clients, "alpha")].transport = "closed"
    /\ sessions[MapGet(clients, "alpha")].connected
    /\ calls[c].sess = MapGet(clients, "alpha")
    /\ calls[c].pc = "thrown"
    /\ calls[c].err.kind = "transport"
    /\ calls[c].gate.state = "closed"

====
